---- MODULE Spec2Model ----
(***************************************************************************)
(* Model of the session lifecycle controller of action-upterm              *)
(* (src/src/index.ts, lines 1-481): run() = validateInputs,                *)
(* installDependencies, setupSSH, startUptermSession, monitorSession,      *)
(* together with the external processes the controller only observes       *)
(* through the filesystem: the upterm daemon, the tmux server, the         *)
(* detached watchdog script and the human who touches the continue file.   *)
(*                                                                         *)
(* Texts (log lines, error messages) are sequences of fragments, so that   *)
(* String(error), template wrapping and String.includes are computed.      *)
(* The wait-timeout-minutes input is a sequence of characters, so that     *)
(* parseInt is computed.                                                   *)
(***************************************************************************)
EXTENDS Integers, Sequences, FiniteSets, TLC

VARIABLES
    waitTimeout,    \* core.getInput('wait-timeout-minutes'): sequence of characters
    uptermServer,   \* core.getInput('upterm-server'): string
    platform,       \* process.platform
    arch,           \* process.arch
    ghWorkspace,    \* process.env.GITHUB_WORKSPACE ("" when unset)
    limitUsers,     \* core.getInput('limit-access-to-users'): sequence of characters
    limitActor,     \* core.getInput('limit-access-to-actor'): string
    actor,          \* github.context.actor: sequence of characters
    tmpdir,         \* os.tmpdir(): sequence of path components and separators
    probes,         \* what the diagnostic probes meet on this runner: the probes that
                    \* fail, and "has-upterm-log" when the socket directory holds a log
    pc,             \* position of the controller inside run()
    tries,          \* waitForUptermReady: remaining tries
    thrown,         \* message of the Error travelling to run()'s catch (<<>>: none)
    files,          \* paths that exist on the filesystem
    daemon,         \* upterm daemon: "none" | "running" | "dead"
    tmuxServer,     \* tmux server: "none" | "running" | "killed"
    watchdog,       \* detached timeout script: "none" | "sleeping" | "flagged" | "fired" | "skipped"
    attached,       \* a 'tmux attach' client process exists
    log,            \* core.info / core.error calls, in order
    setFailed,      \* messages passed to core.setFailed, in order
    effects,        \* downloads, commands, directory creations, file appends, in order
    statusQueries,  \* number of 'upterm session current' commands spawned
    socketPath,     \* monitorSession: socketPath of the current tick
    tick,           \* monitorSession: number of the current tick (0 before the loop)
    tickObs,        \* observations made by the checks of the current tick
    tickLog,        \* Len(log) when the current tick started
    tickQueries,    \* statusQueries when the current tick started
    outcome,        \* how monitorSession ended
    wdAtExit,       \* state of the watchdog when monitorSession ended
    pending,        \* message of the Error caught by an inner catch block (<<>>: none)
    failedStep,     \* step of run() whose error reached the catch (0: none)
    completed,      \* number of steps of run() completed successfully
    runPromise,     \* promise returned by run(): "pending" | "resolved" | "rejected"
    exec,           \* one call of execShellCommand: its arguments, child and promise
    kh              \* the known_hosts setup of the earlier run(): its input, the file,
                    \* its log lines and commands

inputVars == <<waitTimeout, uptermServer, platform, arch, ghWorkspace, limitUsers,
               limitActor, actor, tmpdir, probes>>
ctlVars   == <<pc, tries, thrown, pending, socketPath, tick, tickObs, tickLog, tickQueries,
               outcome, wdAtExit, failedStep, completed, runPromise>>
outVars   == <<log, setFailed, effects, statusQueries>>
envVars   == <<files, daemon, tmuxServer, watchdog, attached>>
vars      == <<inputVars, ctlVars, outVars, envVars, exec, kh>>

----------------------------------------------------------------------------
(* Bounds of the model *)

\* longest wait-timeout-minutes text enumerated by the validator specification
MaxLen == 4
\* status queries the monitor may issue before the model stops following it
MaxTicks == 2
\* longest limit-access-to-users text enumerated by the access specification
MaxUsersLen == 4
\* chunks a child process writes to each of its two streams
MaxChunks == 2

----------------------------------------------------------------------------
(* Constants of the program *)

UPTERM_SOCKET_POLL_INTERVAL == 1000
UPTERM_READY_MAX_RETRIES == 10
SESSION_STATUS_POLL_INTERVAL == 5000
UPTERM_INIT_DELAY == 2000
MAX_TIMEOUT_MINUTES == 1440

CONTINUE_FILE_PATHS == [win32 |-> "C:/msys64/continue", unix |-> "/continue"]

NoError == <<>>
\* findUptermSocket's null: the path without components
NoSocket == <<>>

----------------------------------------------------------------------------
(* Runtime paths. A path is a sequence of components and separators; a location
   is the file or directory the operating system reaches through a path. *)

\* path.sep
PathSep == IF platform = "win32" THEN "\\" ELSE "/"

\* the normalization made by path.join: on win32 every slash becomes a backslash
Normalize(p) ==
    IF platform = "win32" THEN [i \in DOMAIN p |-> IF p[i] = "/" THEN "\\" ELSE p[i]] ELSE p

\* path.join(p, name)
PathJoin(p, name) == Normalize(p \o <<PathSep, name>>)

\* mutant: the path is handed to the shell as it is
toShellPath_Keep(filePath) == filePath

\* toShellPath: filePath.replace(/\\/g, '/')
toShellPath(filePath) ==
    [i \in DOMAIN filePath |-> IF filePath[i] = "\\" THEN "/" ELSE filePath[i]]

\* getUptermDirs
getUptermDirs ==
    LET base  == PathJoin(tmpdir, "upterm-data")
        state == PathJoin(base, "state")
    IN  [base |-> base,
         runtime |-> PathJoin(base, "runtime"),
         state |-> state,
         config |-> PathJoin(base, "config"),
         logs |-> [uptermCommand |-> PathJoin(state, "upterm-command.log"),
                   tmuxError |-> PathJoin(state, "tmux-error.log")],
         timeoutFlag |-> PathJoin(base, "timeout-flag")]

getUptermTimeoutFlagPath == toShellPath(getUptermDirs.timeoutFlag)
getUptermCommandLogPath == toShellPath(getUptermDirs.logs.uptermCommand)
getTmuxErrorLogPath == toShellPath(getUptermDirs.logs.tmuxError)
getUptermSocketDir == PathJoin(getUptermDirs.runtime, "upterm")

\* an unquoted word of a command line as bash reads it: a backslash escapes the
\* next character and is dropped
ShellWord(word) == SelectSeq(word, LAMBDA c : c # "\\")

RECURSIVE Concat(_)
Concat(parts) == IF parts = <<>> THEN "" ELSE Head(parts) \o Concat(Tail(parts))

\* the location a path leads to: on win32 a slash and a backslash both separate
\* components, elsewhere only the slash does
Location(p) ==
    Concat([i \in DOMAIN p |-> IF platform = "win32" /\ p[i] = "\\" THEN "/" ELSE p[i]])

\* the name upterm gives its admin socket inside <XDG_RUNTIME_DIR>/upterm
SocketName == "session.sock"

\* the admin socket of a runner whose os.tmpdir() is /tmp
SocketFile == "/tmp/upterm-data/runtime/upterm/session.sock"

----------------------------------------------------------------------------
(* Texts *)

\* String(error) and `${error}` of an Error object: "Error: " + message
ErrorToString(msg) == <<"Error: ">> \o msg

\* `${prefix}${error}`
Wrap(prefix, msg) == <<prefix>> \o ErrorToString(msg)

\* String.prototype.includes, on fragments
Includes(text, needle) == \E i \in 1..Len(text) : text[i] = needle

\* execShellCommand's rejection: `Command failed with exit code ${code}: ${cmd}` + stderr
CommandFailedWith(code, cmdText, stderr) ==
    <<"Command failed with exit code " \o code \o ": ">> \o cmdText
        \o (IF stderr = "" THEN <<>> ELSE <<"\nStderr: ", stderr>>)

\* the rejection of a command that exits with code 1
CommandFailed(cmd, stderr) == CommandFailedWith("1", <<cmd>>, stderr)

TimeoutMsg == <<"wait-timeout-minutes must be a valid positive integer not exceeding 1440 (24 hours)">>
ServerMsg  == <<"upterm-server is required">>

ContinueMsg == <<"Exiting debugging session because '/continue' file was created">>
TimedOutMsg1 == <<"Upterm session timed out - no client connected within the specified wait-timeout-minutes">>
TimedOutMsg2 == <<"The session was automatically shut down to prevent unnecessary resource usage">>
QuitMsg == <<"Exiting debugging session: 'upterm' quit">>
UnexpectedMsg == <<"Upterm session appears to have ended unexpectedly">>
CrashHintMsg == <<"This may indicate the upterm process crashed or was terminated externally">>
SocketNotFoundMsg == <<"Socket file not found">>
StatusPrefix == "Failed to get upterm session status: "

Info(msg)  == [level |-> "info", msg |-> msg]
Error(msg) == [level |-> "error", msg |-> msg]
Debug(msg) == [level |-> "debug", msg |-> msg]

\* String.prototype.trim, on the fragments of a command output
RECURSIVE Trim(_)
Trim(text) ==
    IF text # <<>> /\ Head(text) \in {" ", "\n"} THEN Trim(Tail(text))
    ELSE IF text # <<>> /\ text[Len(text)] \in {" ", "\n"}
         THEN Trim(SubSeq(text, 1, Len(text) - 1))
         ELSE text

\* execShellCommand's rejection when the shell cannot be spawned (helpers.ts, line 68)
ProcessError == <<"Process error: ", "spawn /bin/bash EAGAIN">>

----------------------------------------------------------------------------
(* validateInputs *)

Digits == {"0", "1", "2", "3", "4", "5", "6", "7", "8", "9"}
DigitVal(c) ==
    CASE c = "0" -> 0 [] c = "1" -> 1 [] c = "2" -> 2 [] c = "3" -> 3 [] c = "4" -> 4
      [] c = "5" -> 5 [] c = "6" -> 6 [] c = "7" -> 7 [] c = "8" -> 8 [] c = "9" -> 9

NaN == [nan |-> TRUE, val |-> 0]
Num(n) == [nan |-> FALSE, val |-> n]

RECURSIVE SkipWhite(_)
SkipWhite(s) == IF s # <<>> /\ Head(s) = " " THEN SkipWhite(Tail(s)) ELSE s

RECURSIVE DigitPrefix(_)
DigitPrefix(s) ==
    IF s # <<>> /\ Head(s) \in Digits THEN <<Head(s)>> \o DigitPrefix(Tail(s)) ELSE <<>>

RECURSIVE DecValue(_)
DecValue(ds) ==
    IF ds = <<>> THEN 0 ELSE 10 * DecValue(SubSeq(ds, 1, Len(ds) - 1)) + DigitVal(ds[Len(ds)])

\* parseInt(s, 10): leading white space skipped, optional sign, then the longest
\* prefix of digits; whatever follows the digits is ignored; NaN without a digit
parseInt(s) ==
    LET t    == SkipWhite(s)
        neg  == t # <<>> /\ Head(t) = "-"
        body == IF t # <<>> /\ Head(t) \in {"-", "+"} THEN Tail(t) ELSE t
        ds   == DigitPrefix(body)
    IN  IF ds = <<>> THEN NaN
        ELSE Num(IF neg THEN 0 - DecValue(ds) ELSE DecValue(ds))

isNaN(p) == p.nan
\* comparisons with NaN are false
Less(p, n) == ~p.nan /\ p.val < n
Greater(p, n) == ~p.nan /\ p.val > n
\* Number.isInteger: the values of the model are NaN or integers
NumberIsInteger(p) == ~p.nan

\* the check of wait-timeout-minutes made by validateInputs (TRUE: the check throws)
TimeoutRejected(wt) ==
    /\ wt # <<>>
    /\ LET parsedTimeout == parseInt(wt)
       IN  \/ isNaN(parsedTimeout)
           \/ Less(parsedTimeout, 0)
           \/ Greater(parsedTimeout, MAX_TIMEOUT_MINUTES)
           \/ ~NumberIsInteger(parsedTimeout)

\* mutant: the check of upterm-server is missing
validateInputs_NoServerCheck(wt, srv) ==
    IF TimeoutRejected(wt) THEN TimeoutMsg ELSE NoError

\* validateInputs: the message of the Error it throws, NoError when it returns
validateInputs(wt, srv) ==
    IF TimeoutRejected(wt) THEN TimeoutMsg
    ELSE IF srv = "" THEN ServerMsg
    ELSE NoError

----------------------------------------------------------------------------
(* Architecture and platform *)

\* mutant: a name that is not a known unsupported one is passed through
getUptermArchitecture_Passthrough(nodeArch) ==
    CASE nodeArch = "x64" -> "amd64"
      [] nodeArch = "ppc64le" -> "null"
      [] OTHER -> nodeArch

\* getUptermArchitecture: null is "null"
getUptermArchitecture(nodeArch) ==
    CASE nodeArch = "x64" -> "amd64"
      [] nodeArch = "arm64" -> "arm64"
      [] OTHER -> "null"

\* validateArchitecture: the message of the Error it throws, NoError when it returns
validateArchitecture(a) ==
    IF getUptermArchitecture(a) = "null"
    THEN <<"Unsupported architecture for upterm: ", a, ". Only x64 and arm64 are supported.">>
    ELSE NoError

\* mutant: there is no handler for win32
platformHandlers_NoWindows == {"linux", "darwin"}

\* the keys of platformHandlers
platformHandlers == {"linux", "win32", "darwin"}

InstallPrefix(p) == "Failed to install dependencies on " \o p \o ": "

----------------------------------------------------------------------------
(* Filesystem observations *)

\* path.join(process.env.GITHUB_WORKSPACE ?? '/', 'continue')
WorkspaceContinuePath(ws) == IF ws = "" THEN "/continue" ELSE ws \o "/continue"

\* mutant: only the root-level path is tested
continueFileExists_RootOnly ==
    (IF platform = "win32" THEN CONTINUE_FILE_PATHS.win32 ELSE CONTINUE_FILE_PATHS.unix) \in files

\* continueFileExists
continueFileExists ==
    LET continuePath == IF platform = "win32" THEN CONTINUE_FILE_PATHS.win32
                        ELSE CONTINUE_FILE_PATHS.unix
    IN  continuePath \in files \/ WorkspaceContinuePath(ghWorkspace) \in files

\* mutant: the reader tests a path the watchdog never writes
isTimeoutReached_OtherPath == "/tmp/upterm-timeout-flag" \in files

\* isTimeoutReached
isTimeoutReached == Location(getUptermTimeoutFlagPath) \in files

\* findUptermSocket: the path of the '.sock' file of the socket directory, NoSocket
\* when the directory or the file is not there
findUptermSocket ==
    LET uptermDir == getUptermSocketDir
    IN  IF Location(uptermDir) \notin files THEN NoSocket
        ELSE IF Location(PathJoin(uptermDir, SocketName)) \notin files THEN NoSocket
        ELSE toShellPath(PathJoin(uptermDir, SocketName))

\* uptermSocketExists
uptermSocketExists == findUptermSocket # NoSocket

----------------------------------------------------------------------------
(* getAllowedUsers and buildAuthorizedKeysParameter *)

\* the characters matched by the separator class [\s\n,] that the inputs contain
UserSeparators == {" ", "\n", "\t", ","}

RECURSIVE SkipSeparators(_)
SkipSeparators(s) ==
    IF s # <<>> /\ Head(s) \in UserSeparators THEN SkipSeparators(Tail(s)) ELSE s

\* String.prototype.split(/[\s\n,]+/): the pieces between the runs of separators,
\* empty pieces at the ends included; cur is the piece being read
RECURSIVE SplitFrom(_, _)
SplitFrom(s, cur) ==
    IF s = <<>> THEN <<cur>>
    ELSE IF Head(s) \in UserSeparators
         THEN <<cur>> \o SplitFrom(SkipSeparators(Tail(s)), <<>>)
         ELSE SplitFrom(Tail(s), Append(cur, Head(s)))

\* .filter(Boolean) on strings: the empty string is dropped
FilterBoolean(pieces) == SelectSeq(pieces, LAMBDA piece : piece # <<>>)

\* mutant: the list is returned as collected
SetInOrder_Keep(list) == list

\* [...new Set(list)]: the first occurrence of each element, in order
RECURSIVE SetInOrder(_)
SetInOrder(list) ==
    IF list = <<>> THEN <<>>
    ELSE LET front == SetInOrder(SubSeq(list, 1, Len(list) - 1))
             last  == list[Len(list)]
         IN  IF \E i \in 1..Len(front) : front[i] = last THEN front ELSE Append(front, last)

\* getAllowedUsers (without its log line)
getAllowedUsers(users, actorFlag, who) ==
    LET allowedUsers == FilterBoolean(SplitFrom(users, <<>>))
    IN  SetInOrder(IF actorFlag = "true" THEN Append(allowedUsers, who) ELSE allowedUsers)

GithubUserFlag == "--github-user '"

\* Array.prototype.join(' ')
RECURSIVE JoinSpace(_)
JoinSpace(parts) ==
    IF parts = <<>> THEN <<>>
    ELSE IF Len(parts) = 1 THEN parts[1]
    ELSE parts[1] \o <<" ">> \o JoinSpace(Tail(parts))

\* buildAuthorizedKeysParameter
buildAuthorizedKeysParameter(allowedUsers) ==
    JoinSpace([i \in 1..Len(allowedUsers) |-> <<GithubUserFlag>> \o allowedUsers[i] \o <<"'">>])
        \o <<" ">>

----------------------------------------------------------------------------
(* Steps of run() *)

StepValidate == 1
StepInstall  == 2
StepSSH      == 3
StepSession  == 4
StepMonitor  == 5

Effect(step, kind) == [step |-> step, kind |-> kind]

\* await sleep(ms)
Sleep(step, ms) == [step |-> step, kind |-> "sleep", ms |-> ms]

\* the tmux/upterm launch command of createUptermSession, with the two values the
\* template of line 264 takes from the inputs
Launch(server, authorizedKeysParameter) ==
    [step |-> StepSession, kind |-> "command", server |-> server,
     auth |-> authorizedKeysParameter,
     XDG_RUNTIME_DIR |-> toShellPath(getUptermDirs.runtime),
     XDG_STATE_HOME |-> toShellPath(getUptermDirs.state),
     XDG_CONFIG_HOME |-> toShellPath(getUptermDirs.config)]

\* the launch commands spawned so far
Launches == SelectSeq(effects, LAMBDA e : "auth" \in DOMAIN e)

\* the timeout script of setupSessionTimeout, with the two values the template of
\* lines 283-291 takes: the minutes and the flag path
TimeoutScript(minutes, timeoutFlagPath) ==
    [step |-> StepSession, kind |-> "timeout-script", minutes |-> minutes,
     flag |-> timeoutFlagPath]

\* the timeout scripts spawned so far
TimeoutScripts == SelectSeq(effects, LAMBDA e : e.kind = "timeout-script")

\* an Error leaves the current step and travels to the catch of run()
Throw(msg, step) ==
    /\ pc' = "catch"
    /\ thrown' = msg
    /\ failedStep' = step

\* mutant: the validation error is noted but the run goes on
RunValidate_NoAbort ==
    /\ pc = "validate"
    /\ LET e == validateInputs(waitTimeout, uptermServer)
       IN  /\ pc' = "install"
           /\ thrown' = e
           /\ failedStep' = IF e = NoError THEN 0 ELSE StepValidate
           /\ completed' = IF e = NoError THEN StepValidate ELSE 0
    /\ UNCHANGED <<inputVars, exec, kh, envVars, outVars, tries, pending, socketPath, tick,
                   tickObs, tickLog, tickQueries, outcome, wdAtExit, runPromise>>

\* mutant: run() returns at once on Windows
RunValidate_SkipWindows ==
    /\ pc = "validate"
    /\ IF platform = "win32"
       THEN /\ log' = Append(log, Info(<<"Windows is not supported by upterm, skipping...">>))
            /\ pc' = "done"
            /\ runPromise' = "resolved"
            /\ UNCHANGED <<thrown, failedStep, completed>>
       ELSE LET e == validateInputs(waitTimeout, uptermServer)
            IN  /\ UNCHANGED <<log, runPromise>>
                /\ IF e = NoError
                   THEN /\ pc' = "install"
                        /\ completed' = StepValidate
                        /\ UNCHANGED <<thrown, failedStep>>
                   ELSE /\ Throw(e, StepValidate)
                        /\ UNCHANGED completed
    /\ UNCHANGED <<inputVars, exec, kh, envVars, setFailed, effects, statusQueries, tries, pending,
                   socketPath, tick, tickObs, tickLog, tickQueries, outcome, wdAtExit>>

\* run(), line 111: validateInputs()
RunValidate ==
    /\ pc = "validate"
    /\ LET e == validateInputs(waitTimeout, uptermServer)
       IN  IF e = NoError
           THEN /\ pc' = "install"
                /\ completed' = StepValidate
                /\ UNCHANGED <<thrown, failedStep>>
           ELSE /\ Throw(e, StepValidate)
                /\ UNCHANGED completed
    /\ UNCHANGED <<inputVars, exec, kh, envVars, outVars, tries, pending, socketPath, tick,
                   tickObs, tickLog, tickQueries, outcome, wdAtExit, runPromise>>

\* mutant: the catch block rethrows instead of reporting
RunCatch_Rethrow ==
    /\ pc = "catch"
    /\ runPromise' = "rejected"
    /\ pc' = "done"
    /\ UNCHANGED <<inputVars, exec, kh, envVars, outVars, tries, thrown, pending, socketPath, tick,
                   tickObs, tickLog, tickQueries, outcome, wdAtExit, failedStep, completed>>

\* run(), lines 117-123: the catch boundary
RunCatch ==
    /\ pc = "catch"
    /\ setFailed' = Append(setFailed, thrown)
    /\ runPromise' = "resolved"
    /\ pc' = "done"
    /\ UNCHANGED <<inputVars, exec, kh, envVars, log, effects, statusQueries, tries, thrown,
                   pending, socketPath, tick, tickObs, tickLog, tickQueries, outcome,
                   wdAtExit, failedStep, completed>>

ctlRest == <<tries, pending, socketPath, tick, tickObs, tickLog, tickQueries, outcome,
             wdAtExit, runPromise>>

\* an upterm binary, and tmux, on the executable path of the runner
UptermOnPath == "PATH/upterm"
TmuxOnPath == "PATH/tmux"

\* mutant: an error of the handler leaves installDependencies as it is
HandlerThrow_Raw(cause) == Throw(cause, StepInstall)

\* installDependencies, lines 165-170: an error thrown by the handler is caught and
\* thrown again inside the 'Failed to install dependencies' message
HandlerThrow(cause) == Throw(Wrap(InstallPrefix(platform), cause), StepInstall)

\* installDependencies, lines 160-166: handler lookup, then validateArchitecture
\* at the top of the linux and win32 handlers
InstallStart ==
    /\ pc = "install"
    /\ IF platform \notin platformHandlers
       THEN Throw(<<"Unsupported platform: ", platform>>, StepInstall)
       ELSE IF platform = "darwin"
       THEN pc' = "inst_brew" /\ UNCHANGED <<thrown, failedStep>>
       ELSE IF validateArchitecture(arch) # NoError
       THEN HandlerThrow(validateArchitecture(arch))
       ELSE pc' = "inst_download" /\ UNCHANGED <<thrown, failedStep>>
    /\ UNCHANGED <<inputVars, exec, kh, envVars, outVars, ctlRest, completed>>

\* tc.downloadTool, lines 131 and 144
InstDownload ==
    /\ pc = "inst_download"
    /\ effects' = Append(effects, Effect(StepInstall, "download"))
    /\ \/ pc' = "inst_extract" /\ UNCHANGED <<thrown, failedStep>>
       \/ HandlerThrow(<<"download failed">>)
    /\ UNCHANGED <<inputVars, exec, kh, envVars, log, setFailed, statusQueries, ctlRest, completed>>

\* tc.extractTar, the existsSync of the binary and core.addPath, lines 132-139, 145-152
InstExtract ==
    /\ pc = "inst_extract"
    /\ \/ /\ effects' = Append(Append(effects, Effect(StepInstall, "extract")),
                               Effect(StepInstall, "addPath"))
          /\ files' = files \cup {UptermOnPath}
          /\ pc' = "inst_tmux"
          /\ UNCHANGED <<thrown, failedStep>>
       \/ /\ effects' = Append(effects, Effect(StepInstall, "extract"))
          /\ UNCHANGED files
          /\ \/ HandlerThrow(<<"extract failed">>)
             \/ HandlerThrow(<<"Downloaded upterm archive does not contain binary at expected path">>)
    /\ UNCHANGED <<inputVars, exec, kh, daemon, tmuxServer, watchdog, attached, log, setFailed,
                   statusQueries, ctlRest, completed>>

\* mutant: the package manager is run without looking for tmux first
InstCommand_AlwaysInstall ==
    /\ pc \in {"inst_tmux", "inst_brew"}
    /\ effects' = effects \o <<Effect(StepInstall, "command"),
                                Effect(StepInstall, "package-manager")>>
    /\ \/ /\ pc' = "ssh"
          /\ completed' = StepInstall
          /\ files' = files \cup (IF pc = "inst_brew" THEN {UptermOnPath, TmuxOnPath}
                                   ELSE {TmuxOnPath})
          /\ UNCHANGED <<thrown, failedStep>>
       \/ /\ HandlerThrow(CommandFailed("install", ""))
          /\ UNCHANGED <<completed, files>>
    /\ UNCHANGED <<inputVars, exec, kh, daemon, tmuxServer, watchdog, attached, log, setFailed,
                   statusQueries, ctlRest>>

\* the install-tmux-if-missing command (lines 140, 153: apt-get or pacman is run
\* only when 'command -v tmux' finds nothing, and only then can the command fail)
\* and brew install (line 156: brew is run every time)
InstCommand ==
    /\ pc \in {"inst_tmux", "inst_brew"}
    /\ LET invoked == pc = "inst_brew" \/ TmuxOnPath \notin files
           spawned == Append(effects, Effect(StepInstall, "command"))
       IN  /\ effects' = IF invoked
                         THEN Append(spawned, Effect(StepInstall, "package-manager"))
                         ELSE spawned
           /\ \/ /\ pc' = "ssh"
                 /\ completed' = StepInstall
                 /\ files' = files \cup (IF pc = "inst_brew" THEN {UptermOnPath, TmuxOnPath}
                                          ELSE {TmuxOnPath})
                 /\ UNCHANGED <<thrown, failedStep>>
              \/ /\ invoked
                 /\ HandlerThrow(CommandFailed("install", ""))
                 /\ UNCHANGED <<completed, files>>
    /\ UNCHANGED <<inputVars, exec, kh, daemon, tmuxServer, watchdog, attached, log, setFailed,
                   statusQueries, ctlRest>>

IdRsaPath == "~/.ssh/id_rsa"
IdEd25519Path == "~/.ssh/id_ed25519"

\* generateSSHKeys, lines 174-183
SshStart ==
    /\ pc = "ssh"
    /\ IF IdRsaPath \in files
       THEN pc' = "ssh_config" /\ UNCHANGED effects
       ELSE /\ pc' = "ssh_keygen"
            /\ effects' = Append(effects, Effect(StepSSH, "mkdir"))
    /\ UNCHANGED <<inputVars, exec, kh, envVars, log, setFailed, statusQueries, ctlRest, thrown,
                   failedStep, completed>>

\* mutant: the two ssh-keygen commands are joined by '&&'
KeygenExitOk_Both(rsaOk, edOk) == rsaOk /\ edOk

\* line 190: 'ssh-keygen ... rsa ...; ssh-keygen ... ed25519 ...': the exit code of
\* a ';' list is the exit code of its last command
KeygenExitOk(rsaOk, edOk) == edOk

\* generateSSHKeys, lines 189-194: the command of the two ssh-keygen, each of which
\* writes its key file or fails
SshKeygen ==
    /\ pc = "ssh_keygen"
    /\ effects' = Append(effects, Effect(StepSSH, "command"))
    /\ \E rsaOk \in BOOLEAN, edOk \in BOOLEAN :
          /\ files' = files \cup (IF rsaOk THEN {IdRsaPath} ELSE {})
                            \cup (IF edOk THEN {IdEd25519Path} ELSE {})
          /\ IF KeygenExitOk(rsaOk, edOk)
             THEN pc' = "ssh_config" /\ UNCHANGED <<thrown, failedStep>>
             ELSE Throw(Wrap("Failed to generate SSH keys: ",
                             CommandFailed("ssh-keygen", "")), StepSSH)
    /\ UNCHANGED <<inputVars, exec, kh, daemon, tmuxServer, watchdog, attached, log, setFailed,
                   statusQueries, ctlRest, completed>>

\* configureSSHClient, line 209: fs.appendFileSync
SshConfig ==
    /\ pc = "ssh_config"
    /\ effects' = Append(effects, Effect(StepSSH, "append"))
    /\ \/ /\ pc' = "sess_launch"
          /\ completed' = StepSSH
          /\ UNCHANGED <<thrown, failedStep>>
       \/ /\ Throw(<<"EACCES: permission denied, open '~/.ssh/config'">>, StepSSH)
          /\ UNCHANGED completed
    /\ UNCHANGED <<inputVars, exec, kh, envVars, log, setFailed, statusQueries, ctlRest>>

----------------------------------------------------------------------------
(* startUptermSession *)

\* startUptermSession, lines 385-390: getAllowedUsers and its log line,
\* buildAuthorizedKeysParameter; createUptermSession, lines 238-265: the log line,
\* the directories, then the tmux/upterm launch
SessLaunch ==
    /\ pc = "sess_launch"
    /\ LET allowedUsers == getAllowedUsers(limitUsers, limitActor, actor)
           authorizedKeysParameter == buildAuthorizedKeysParameter(allowedUsers)
       IN  effects' = Append(Append(effects, Effect(StepSession, "mkdir")),
                             Launch(uptermServer, authorizedKeysParameter))
    /\ log' = log
               \o (IF limitActor = "true"
                   THEN <<Info(<<"Adding actor \"">> \o actor \o <<"\" to allowed users.">>)>>
                   ELSE <<>>)
               \o <<Info(<<"Creating a new session. Connecting to upterm server ",
                           uptermServer>>)>>
    /\ \/ /\ pc' = "sess_winsize"
          /\ tmuxServer' = "running"
          /\ daemon' = "starting"
          /\ UNCHANGED pending
       \/ /\ pc' = "sess_readlog"
          /\ pending' = CommandFailed("tmux new", "")
          /\ UNCHANGED <<tmuxServer, daemon>>
    /\ UNCHANGED <<inputVars, exec, kh, files, watchdog, attached, setFailed, statusQueries, tries,
                   thrown, socketPath, tick, tickObs, tickLog, tickQueries, outcome,
                   wdAtExit, failedStep, completed, runPromise>>

\* createUptermSession, line 266: the window-size command
SessWinsize ==
    /\ pc = "sess_winsize"
    /\ effects' = Append(effects, Effect(StepSession, "command"))
    /\ \/ pc' = "init_delay" /\ UNCHANGED pending
       \/ pc' = "sess_readlog" /\ pending' = CommandFailed("tmux set", "")
    /\ UNCHANGED <<inputVars, exec, kh, envVars, log, setFailed, statusQueries, tries, thrown,
                   socketPath, tick, tickObs, tickLog, tickQueries, outcome, wdAtExit,
                   failedStep, completed, runPromise>>

\* mutant: a failure of the log read escapes in place of the cause
SessReadLog_LogErrorEscapes ==
    /\ pc = "sess_readlog"
    /\ effects' = Append(effects, Effect(StepSession, "command"))
    /\ \/ /\ LET tmuxError == <<"No tmux error log found", "\n">>
             IN  log' = Append(log, Error(<<"Tmux error log: ">> \o Trim(tmuxError)))
          /\ Throw(Wrap("Failed to create upterm session: ", pending), StepSession)
       \/ /\ UNCHANGED log
          /\ Throw(ProcessError, StepSession)
    /\ UNCHANGED <<inputVars, exec, kh, envVars, setFailed, statusQueries, ctlRest, completed>>

\* createUptermSession, lines 268-276: best-effort read of the tmux error log, then
\* the wrapped Error
SessReadLog ==
    /\ pc = "sess_readlog"
    /\ effects' = Append(effects, Effect(StepSession, "command"))
    /\ \/ LET tmuxError == <<"No tmux error log found", "\n">>
          IN  log' = Append(log, Error(<<"Tmux error log: ">> \o Trim(tmuxError)))
       \/ log' = Append(log, Debug(<<"Could not read tmux error log: ">>
                                       \o ErrorToString(ProcessError)))
    /\ Throw(Wrap("Failed to create upterm session: ", pending), StepSession)
    /\ UNCHANGED <<inputVars, exec, kh, envVars, setFailed, statusQueries, ctlRest, completed>>

\* line 372: let tries = UPTERM_READY_MAX_RETRIES
ReadyBudget == UPTERM_READY_MAX_RETRIES

\* mutant: the value 0 is taken for "no timeout"
InitDelay_ZeroSkips ==
    /\ pc = "init_delay"
    /\ effects' = Append(effects, Sleep(StepSession, UPTERM_INIT_DELAY))
    /\ IF waitTimeout # <<>> /\ parseInt(waitTimeout).val # 0
       THEN pc' = "arm_watchdog" /\ UNCHANGED tries
       ELSE pc' = "ready" /\ tries' = ReadyBudget
    /\ UNCHANGED <<inputVars, exec, kh, envVars, log, setFailed, statusQueries, thrown, pending, socketPath, tick,
                   tickObs, tickLog, tickQueries, outcome, wdAtExit, failedStep,
                   completed, runPromise>>

\* startUptermSession, lines 391-395: the init delay, then the branch on the timeout
InitDelay ==
    /\ pc = "init_delay"
    /\ effects' = Append(effects, Sleep(StepSession, UPTERM_INIT_DELAY))
    /\ IF waitTimeout # <<>>
       THEN pc' = "arm_watchdog" /\ UNCHANGED tries
       ELSE pc' = "ready" /\ tries' = ReadyBudget
    /\ UNCHANGED <<inputVars, exec, kh, envVars, log, setFailed, statusQueries, thrown, pending, socketPath, tick,
                   tickObs, tickLog, tickQueries, outcome, wdAtExit, failedStep,
                   completed, runPromise>>

\* setupSessionTimeout, lines 279-299: spawn the detached script
ArmWatchdog ==
    /\ pc = "arm_watchdog"
    /\ effects' = Append(effects, TimeoutScript(parseInt(waitTimeout).val,
                                                getUptermTimeoutFlagPath))
    /\ \/ /\ watchdog' = "sleeping"
          /\ log' = Append(log, Info(<<"wait-timeout-minutes set - will wait for ">>
                                     \o waitTimeout
                                     \o <<" minutes for someone to connect, otherwise shut down">>))
          /\ pc' = "ready"
          /\ tries' = ReadyBudget
          /\ UNCHANGED <<thrown, failedStep>>
       \/ /\ Throw(Wrap("Failed to setup timeout: ", CommandFailed("timeoutScript", "")),
                   StepSession)
          /\ UNCHANGED <<watchdog, log, tries>>
    /\ UNCHANGED <<inputVars, exec, kh, files, daemon, tmuxServer, attached, setFailed,
                   statusQueries, pending, socketPath, tick, tickObs, tickLog,
                   tickQueries, outcome, wdAtExit, completed, runPromise>>

\* a new tick of the monitor loop starts
StartTick ==
    /\ pc' = "mon_continue"
    /\ tick' = tick + 1
    /\ tickObs' = <<>>
    /\ tickLog' = Len(log')
    /\ tickQueries' = statusQueries'
    /\ socketPath' = NoSocket

\* fs.readdirSync(uptermDir) throws on a runner where the directory cannot be listed
ListingThrows == Location(getUptermSocketDir) \in files /\ "listing" \in probes
ListingError ==
    <<"EACCES: permission denied, scandir '">> \o getUptermSocketDir \o <<"'">>

\* waitForUptermReady, lines 372-377: one iteration of the bounded loop: the log
\* line, the socket test, the sleep
ReadyCheck ==
    /\ pc = "ready"
    /\ tries > 0
    /\ tries' = tries - 1
    /\ log' = Append(log, Info(<<"Waiting for upterm to be ready... (",
                                 ToString(UPTERM_READY_MAX_RETRIES - tries'), "/",
                                 ToString(UPTERM_READY_MAX_RETRIES), ")">>))
    /\ UNCHANGED statusQueries
    /\ IF ListingThrows
       THEN /\ Throw(ListingError, StepSession)
            /\ UNCHANGED <<effects, completed, tick, tickObs, tickLog, tickQueries,
                           socketPath>>
       ELSE /\ UNCHANGED <<thrown, failedStep>>
            /\ IF uptermSocketExists
               THEN /\ completed' = StepSession
                    /\ UNCHANGED effects
                    /\ StartTick
               ELSE /\ effects' = Append(effects,
                                         Sleep(StepSession, UPTERM_SOCKET_POLL_INTERVAL))
                    /\ UNCHANGED <<pc, completed, tick, tickObs, tickLog, tickQueries,
                                   socketPath>>
    /\ UNCHANGED <<inputVars, exec, kh, envVars, setFailed, pending, outcome, wdAtExit,
                   runPromise>>

\* Array.prototype.join(', ')
RECURSIVE JoinComma(_)
JoinComma(names) ==
    IF names = <<>> THEN <<>>
    ELSE IF Len(names) = 1 THEN names
    ELSE <<names[1], ", ">> \o JoinComma(Tail(names))

DiagnosticsHead ==
    "Failed to start upterm - socket not found after maximum retries.\n\nDiagnostics:\n"
DiagnosticsTail ==
    "\nPlease report this issue with the above diagnostics at: https://github.com/owenthereal/action-upterm/issues"

\* one command probe of collectDiagnostics (lines 327-360): the line it adds for
\* the output stdout, or for the error when the command is among the failing probes
CommandProbe(probe, okLine, failLine, stdout, skipText) ==
    IF probe \in probes
    THEN <<failLine>> \o ErrorToString(ProcessError) \o <<"\n">>
    ELSE IF Trim(stdout) = <<skipText>> THEN <<>>
    ELSE <<okLine>> \o Trim(stdout) \o <<"\n">>

\* collectDiagnostics, lines 301-369: threw tells whether an error left the
\* function; msg is the message of that error, or the text returned
collectDiagnostics ==
    LET dirs == getUptermDirs
        uptermDir == getUptermSocketDir
        hasLog == "has-upterm-log" \in probes
        names == (IF Location(PathJoin(uptermDir, SocketName)) \in files
                  THEN <<SocketName>> ELSE <<>>)
                 \o (IF hasLog THEN <<"upterm.log">> ELSE <<>>)
        listing ==
            IF Location(uptermDir) \in files
            THEN <<"- Socket directory contains: ">> \o JoinComma(names) \o <<"\n">>
                 \o (IF ~hasLog THEN <<>>
                     ELSE IF "upterm.log" \in probes
                     THEN <<"- Could not read upterm.log: ", "Error: ",
                            "EACCES: permission denied, open 'upterm.log'", "\n">>
                     ELSE <<"- Upterm log:\n", "upterm log content", "\n">>)
            ELSE <<"- Socket directory does not exist\n">>
        tmuxList == IF tmuxServer = "running"
                    THEN <<"upterm-wrapper: 1 windows", "\n">>
                    ELSE <<"No tmux sessions", "\n">>
        version == IF UptermOnPath \in files
                   THEN <<"Upterm version: v0.14.3", "\n">>
                   ELSE <<"upterm not found in PATH", "\n">>
    IN  IF ListingThrows THEN [threw |-> TRUE, msg |-> ListingError, commands |-> 0]
        ELSE [threw |-> FALSE,
              commands |-> 4,
              msg |-> <<DiagnosticsHead, "- Upterm data directory: ">> \o dirs.base \o <<"\n">>
                      \o <<"- Expected socket directory: ">> \o uptermDir \o <<"\n">>
                      \o listing
                      \o CommandProbe("tmux-sessions", "- Tmux sessions: ",
                                      "- Could not check tmux sessions: ", tmuxList, "")
                      \o CommandProbe("tmux-error-log", "- Tmux error log:\n",
                                      "- Could not read tmux error log: ", <<>>,
                                      "No tmux error log")
                      \o CommandProbe("command-log", "- Upterm command output:\n",
                                      "- Could not read command log: ",
                                      <<"upterm host output", "\n">>, "No command log")
                      \o CommandProbe("upterm-version", "- Upterm binary check: ",
                                      "- Could not check upterm binary: ", version, "")
                      \o <<"- XDG_RUNTIME_DIR: ">> \o dirs.runtime \o <<"\n">>
                      \o <<"- USER: ", IF platform = "win32" THEN "not set" ELSE "runner", "\n">>
                      \o <<"- UID: ", IF platform = "win32" THEN "unknown" ELSE "1001", "\n">>
                      \o <<DiagnosticsTail>>]

\* waitForUptermReady, lines 379-381: the tries are used up; collectDiagnostics,
\* then the Error that carries the text it returned
CollectDiagnostics ==
    /\ pc = "ready"
    /\ tries = 0
    /\ effects' = effects \o [i \in 1..collectDiagnostics.commands
                                   |-> Effect(StepSession, "command")]
    /\ Throw(collectDiagnostics.msg, StepSession)
    /\ UNCHANGED <<inputVars, exec, kh, envVars, log, setFailed, statusQueries, ctlRest, completed>>

----------------------------------------------------------------------------
(* monitorSession *)

\* texts the status command may print on success: the last line ends with a newline
StatusTexts == {<<"SSH Session: ssh abc@uptermd.upterm.dev", "\n">>}

\* mutant: the status text is trimmed before it is logged
StatusLine_Trimmed(stdout) == Info(Trim(stdout))

\* line 426: core.info(await execShellCommand(...))
StatusLine(stdout) == Info(stdout)

\* stderr texts of a failed status command
ErrTexts == {"connection refused", "No such file or directory",
             "no such file or directory", "context deadline exceeded"}

\* a break of the loop: monitorSession returns, run() returns, the promise resolves
MonitorEnds(how, lines) ==
    /\ log' = log \o lines
    /\ outcome' = how
    /\ wdAtExit' = watchdog
    /\ completed' = StepMonitor
    /\ runPromise' = "resolved"
    /\ pc' = "done"

\* logTimeoutMessage
logTimeoutMessage == <<Info(TimedOutMsg1), Info(TimedOutMsg2)>>

\* mutant: on the continue file the monitor shuts the tmux server down before leaving
MonCheckContinue_KillServer ==
    /\ pc = "mon_continue"
    /\ IF continueFileExists
       THEN /\ tickObs' = Append(tickObs, "continue")
            /\ MonitorEnds("ExitRequested", <<Info(ContinueMsg)>>)
            /\ tmuxServer' = "killed"
            /\ daemon' = "dead"
            /\ attached' = FALSE
            /\ UNCHANGED <<files, watchdog>>
       ELSE /\ tickObs' = Append(tickObs, "no-continue")
            /\ pc' = "mon_timeout"
            /\ UNCHANGED <<envVars, log, outcome, wdAtExit, completed, runPromise>>
    /\ UNCHANGED <<inputVars, exec, kh, setFailed, effects, statusQueries, tries, thrown,
                   pending, socketPath, tick, tickLog, tickQueries, failedStep>>

\* lines 405-408
MonCheckContinue ==
    /\ pc = "mon_continue"
    /\ IF continueFileExists
       THEN /\ tickObs' = Append(tickObs, "continue")
            /\ MonitorEnds("ExitRequested", <<Info(ContinueMsg)>>)
       ELSE /\ tickObs' = Append(tickObs, "no-continue")
            /\ pc' = "mon_timeout"
            /\ UNCHANGED <<log, outcome, wdAtExit, completed, runPromise>>
    /\ UNCHANGED <<inputVars, exec, kh, envVars, setFailed, effects, statusQueries, tries, thrown,
                   pending, socketPath, tick, tickLog, tickQueries, failedStep>>

\* mutant: the monitor honours the flag only when this run armed a watchdog
MonCheckTimeout_ArmedOnly ==
    /\ pc = "mon_timeout"
    /\ IF isTimeoutReached /\ watchdog # "none"
       THEN /\ tickObs' = Append(tickObs, "flag")
            /\ MonitorEnds("TimedOut", logTimeoutMessage)
       ELSE /\ tickObs' = Append(tickObs, "no-flag")
            /\ pc' = "mon_socket"
            /\ UNCHANGED <<log, outcome, wdAtExit, completed, runPromise>>
    /\ UNCHANGED <<inputVars, exec, kh, envVars, setFailed, effects, statusQueries, tries, thrown,
                   pending, socketPath, tick, tickLog, tickQueries, failedStep>>

\* mutant: the monitor removes the flag file it has seen
MonCheckTimeout_Consume ==
    /\ pc = "mon_timeout"
    /\ IF isTimeoutReached
       THEN /\ tickObs' = Append(tickObs, "flag")
            /\ files' = files \ {Location(getUptermTimeoutFlagPath)}
            /\ MonitorEnds("TimedOut", logTimeoutMessage)
       ELSE /\ tickObs' = Append(tickObs, "no-flag")
            /\ pc' = "mon_socket"
            /\ UNCHANGED <<files, log, outcome, wdAtExit, completed, runPromise>>
    /\ UNCHANGED <<inputVars, exec, kh, daemon, tmuxServer, watchdog, attached, setFailed,
                   effects, statusQueries, tries, thrown, pending, socketPath, tick,
                   tickLog, tickQueries, failedStep>>

\* lines 411-414
MonCheckTimeout ==
    /\ pc = "mon_timeout"
    /\ IF isTimeoutReached
       THEN /\ tickObs' = Append(tickObs, "flag")
            /\ MonitorEnds("TimedOut", logTimeoutMessage)
       ELSE /\ tickObs' = Append(tickObs, "no-flag")
            /\ pc' = "mon_socket"
            /\ UNCHANGED <<log, outcome, wdAtExit, completed, runPromise>>
    /\ UNCHANGED <<inputVars, exec, kh, envVars, setFailed, effects, statusQueries, tries, thrown,
                   pending, socketPath, tick, tickLog, tickQueries, failedStep>>

\* mutant: the loop goes on to the status query without looking for the socket
MonCheckSocket_NoCheck ==
    /\ pc = "mon_socket"
    /\ tickObs' = Append(tickObs, "socket")
    /\ pc' = "mon_find"
    /\ UNCHANGED <<log, outcome, wdAtExit, completed, runPromise>>
    /\ UNCHANGED <<inputVars, exec, kh, envVars, setFailed, effects, statusQueries, tries, thrown,
                   pending, socketPath, tick, tickLog, tickQueries, failedStep>>

\* lines 416-419
MonCheckSocket ==
    /\ pc = "mon_socket"
    /\ IF ~uptermSocketExists
       THEN /\ tickObs' = Append(tickObs, "no-socket")
            /\ MonitorEnds("DaemonExited", <<Info(QuitMsg)>>)
       ELSE /\ tickObs' = Append(tickObs, "socket")
            /\ pc' = "mon_find"
            /\ UNCHANGED <<log, outcome, wdAtExit, completed, runPromise>>
    /\ UNCHANGED <<inputVars, exec, kh, envVars, setFailed, effects, statusQueries, tries, thrown,
                   pending, socketPath, tick, tickLog, tickQueries, failedStep>>

\* lines 422-426: findUptermSocket, then the status command is spawned
MonFindSocket ==
    /\ pc = "mon_find"
    /\ socketPath' = findUptermSocket
    /\ IF socketPath' = NoSocket
       THEN /\ pending' = SocketNotFoundMsg
            /\ tickObs' = Append(tickObs, "socket-gone")
            /\ pc' = "mon_catch"
            /\ UNCHANGED <<effects, statusQueries>>
       ELSE /\ statusQueries' = statusQueries + 1
            /\ effects' = Append(effects, Effect(StepMonitor, "command"))
            /\ tickObs' = Append(tickObs, "query")
            /\ pc' = "mon_await"
            /\ UNCHANGED pending
    /\ UNCHANGED <<inputVars, exec, kh, envVars, log, setFailed, tries, thrown, tick,
                   tickLog, tickQueries, outcome, wdAtExit, failedStep, completed,
                   runPromise>>

\* line 426: the status command ends; it can succeed only against a live daemon
MonStatusResult ==
    /\ pc = "mon_await"
    /\ \/ /\ daemon = "running"
          /\ Location(ShellWord(socketPath)) \in files
          /\ \E stdout \in StatusTexts : log' = Append(log, StatusLine(stdout))
          /\ tickObs' = Append(tickObs, "status-ok")
          /\ pc' = "mon_sleep"
          /\ UNCHANGED pending
       \/ /\ \E stderr \in ErrTexts :
                pending' = CommandFailed("upterm session current", stderr)
          /\ tickObs' = Append(tickObs, "status-failed")
          /\ pc' = "mon_catch"
          /\ UNCHANGED log
    /\ UNCHANGED <<inputVars, exec, kh, envVars, setFailed, effects, statusQueries, tries, thrown,
                   socketPath, tick, tickLog, tickQueries, outcome, wdAtExit, failedStep,
                   completed, runPromise>>

\* mutant: only the connection-refused signature is recognized
IsConnectionLost_RefusedOnly(errorMessage) == Includes(errorMessage, "connection refused")

\* the signatures of a lost connection, line 435
IsConnectionLost(errorMessage) ==
    Includes(errorMessage, "connection refused")
        \/ Includes(errorMessage, "No such file or directory")

\* mutant: an unrecognized failure is swallowed and the loop polls again
MonUnrecognized_Retry ==
    /\ pc' = "mon_sleep"
    /\ UNCHANGED <<thrown, failedStep, outcome, wdAtExit, log, completed, runPromise,
                   tick, tickLog, tickQueries, socketPath>>

\* line 441: an unrecognized failure is wrapped and thrown out of monitorSession
MonUnrecognized ==
    /\ Throw(Wrap(StatusPrefix, pending), StepMonitor)
    /\ outcome' = "Failed"
    /\ wdAtExit' = watchdog
    /\ UNCHANGED <<log, completed, runPromise, tick, tickLog, tickQueries, socketPath>>

\* mutant: the catch block does not look at the flag again
MonCatch_NoRecheck ==
    /\ pc = "mon_catch"
    /\ LET errorMessage == ErrorToString(pending)
       IN  /\ tickObs' = Append(tickObs, "no-flag")
           /\ IF IsConnectionLost(errorMessage)
              THEN /\ MonitorEnds("ConnectionLost",
                                  <<Error(UnexpectedMsg),
                                    Error(<<"Connection error: ">> \o errorMessage),
                                    Info(CrashHintMsg)>>)
                   /\ UNCHANGED <<thrown, failedStep, tick, tickLog, tickQueries,
                                  socketPath>>
              ELSE MonUnrecognized
    /\ UNCHANGED <<inputVars, exec, kh, envVars, setFailed, effects, statusQueries, tries, pending>>

\* lines 427-442: the catch block of the status query
MonCatch ==
    /\ pc = "mon_catch"
    /\ IF isTimeoutReached
       THEN /\ tickObs' = Append(tickObs, "flag")
            /\ MonitorEnds("TimedOut", logTimeoutMessage)
            /\ UNCHANGED <<thrown, failedStep, tick, tickLog, tickQueries, socketPath>>
       ELSE LET errorMessage == ErrorToString(pending)
            IN  /\ tickObs' = Append(tickObs, "no-flag")
                /\ IF IsConnectionLost(errorMessage)
                   THEN /\ MonitorEnds("ConnectionLost",
                                       <<Error(UnexpectedMsg),
                                         Error(<<"Connection error: ">> \o errorMessage),
                                         Info(CrashHintMsg)>>)
                        /\ UNCHANGED <<thrown, failedStep, tick, tickLog, tickQueries,
                                       socketPath>>
                   ELSE MonUnrecognized
    /\ UNCHANGED <<inputVars, exec, kh, envVars, setFailed, effects, statusQueries, tries, pending>>

\* mutant: the monitor gives up after the sleep instead of polling again
MonSleep_Return ==
    /\ pc = "mon_sleep"
    /\ tick < MaxTicks
    /\ effects' = Append(effects, Sleep(StepMonitor, SESSION_STATUS_POLL_INTERVAL))
    /\ MonitorEnds("Stopped", <<>>)
    /\ UNCHANGED <<inputVars, exec, kh, envVars, setFailed, statusQueries, tries, thrown,
                   pending, failedStep, socketPath, tick, tickObs, tickLog, tickQueries>>

\* line 443: the polling sleep, then the next iteration
MonSleep ==
    /\ pc = "mon_sleep"
    /\ tick < MaxTicks
    /\ effects' = Append(effects, Sleep(StepMonitor, SESSION_STATUS_POLL_INTERVAL))
    /\ UNCHANGED <<inputVars, exec, kh, envVars, log, setFailed, statusQueries, tries, thrown,
                   pending, outcome, wdAtExit, failedStep, completed, runPromise>>
    /\ StartTick

----------------------------------------------------------------------------
(* execShellCommand (helpers.ts): one call, its child process and its promise *)

\* no call has been made
ExecIdle ==
    [cmd |-> <<>>, timeout |-> 0, promise |-> "none", resolvedWith |-> "",
     rejectedWith |-> <<>>, child |-> "none", code |-> "", exitSeen |-> FALSE,
     outWritten |-> 0, errWritten |-> 0, outSeen |-> 0, errSeen |-> 0,
     outAtExit |-> 0, errAtExit |-> 0, stdout |-> "", stderr |-> "",
     timer |-> "none", killTimer |-> "none", signals |-> <<>>, killed |-> FALSE]

\* the k-th chunk the child writes to its stdout, to its stderr
OutChunk(k) == "out" \o ToString(k)
ErrChunk(k) == "err" \o ToString(k)

\* the exit codes of a child: a null code is the code of a child ended by a signal
ExitCodes == {"0", "1", "127", "null"}

\* resolve and reject of the Promise: a settled promise stays as it is
Resolve(e, value) ==
    IF e.promise = "pending" THEN [e EXCEPT !.promise = "resolved", !.resolvedWith = value]
    ELSE e
Reject(e, msg) ==
    IF e.promise = "pending" THEN [e EXCEPT !.promise = "rejected", !.rejectedWith = msg]
    ELSE e

\* clearTimeout(timeoutId), when a timeout was given and has not fired
ClearTimer(e) == IF e.timer = "armed" THEN [e EXCEPT !.timer = "cleared"] ELSE e

restVars == <<inputVars, ctlVars, outVars, envVars, kh>>

\* lines 13-36: the empty-command test, spawn, and the timer of the timeout option
ExecCall ==
    /\ exec.promise = "none"
    /\ IF SkipWhite(exec.cmd) = <<>>
       THEN exec' = [exec EXCEPT !.promise = "rejected",
                                 !.rejectedWith = <<"Command cannot be empty">>]
       ELSE \E spawned \in {"running", "failed"} :
               exec' = [exec EXCEPT !.promise = "pending",
                                    !.child = spawned,
                                    !.timer = IF exec.timeout # 0 THEN "armed" ELSE "none"]
    /\ UNCHANGED restVars

\* the child writes a chunk to its stdout or to its stderr
ChildWrite ==
    /\ exec.child = "running"
    /\ \/ /\ exec.outWritten < MaxChunks
          /\ exec' = [exec EXCEPT !.outWritten = @ + 1]
       \/ /\ exec.errWritten < MaxChunks
          /\ exec' = [exec EXCEPT !.errWritten = @ + 1]
    /\ UNCHANGED restVars

\* lines 38-48: a 'data' event of stdout or of stderr
DataEvent ==
    /\ \/ /\ exec.outSeen < exec.outWritten
          /\ exec' = [exec EXCEPT !.outSeen = @ + 1,
                                  !.stdout = @ \o OutChunk(exec.outSeen + 1)]
       \/ /\ exec.errSeen < exec.errWritten
          /\ exec' = [exec EXCEPT !.errSeen = @ + 1,
                                  !.stderr = @ \o ErrChunk(exec.errSeen + 1)]
    /\ UNCHANGED restVars

\* the child ends: by itself with a code, or by a signal with a null code
ChildExit ==
    /\ exec.child = "running"
    /\ \E code \in ExitCodes : exec' = [exec EXCEPT !.child = "exited", !.code = code]
    /\ UNCHANGED restVars

\* mutant: only the exit code 1 counts as a failure
ExitFailed_OnlyOne(code) == code = "1"

\* line 55: code !== 0
ExitFailed(code) == code # "0"

\* lines 50-62: the 'exit' event
ExitEvent ==
    /\ exec.child = "exited"
    /\ ~exec.exitSeen
    /\ LET seen == [ClearTimer(exec) EXCEPT !.exitSeen = TRUE,
                                            !.outAtExit = exec.outSeen,
                                            !.errAtExit = exec.errSeen]
       IN  exec' = IF ExitFailed(exec.code)
                   THEN Reject(seen, CommandFailedWith(exec.code, exec.cmd, exec.stderr))
                   ELSE Resolve(seen, exec.stdout)
    /\ UNCHANGED restVars

\* lines 64-69: the 'error' event of a child that could not be spawned
ErrorEvent ==
    /\ exec.child = "failed"
    /\ exec.promise = "pending"
    /\ exec' = Reject(ClearTimer(exec), <<"Process error: ", "spawn /bin/bash ENOENT">>)
    /\ UNCHANGED restVars

\* subprocess.kill(signal): the signal reaches a child that is still there, and
\* only then is subprocess.killed set
Kill(e, signal) ==
    IF e.child = "running"
    THEN [e EXCEPT !.signals = Append(@, signal), !.killed = TRUE]
    ELSE e

\* lines 26-35: the timeout elapses: SIGTERM, the 5 second timer, the rejection
TimerFires ==
    /\ exec.timer = "armed"
    /\ exec' = Reject([Kill(exec, "SIGTERM") EXCEPT !.timer = "fired", !.killTimer = "armed"],
                      <<"Command timed out after ", ToString(exec.timeout), "ms: ">>
                          \o exec.cmd)
    /\ UNCHANGED restVars

\* lines 29-33: five seconds after SIGTERM: SIGKILL unless subprocess.killed
KillTimerFires ==
    /\ exec.killTimer = "armed"
    /\ exec' = [(IF ~exec.killed THEN Kill(exec, "SIGKILL") ELSE exec)
                    EXCEPT !.killTimer = "fired"]
    /\ UNCHANGED restVars

----------------------------------------------------------------------------
(* The known_hosts setup of the earlier run() (index.ts, lines 551-573). A line of
   known_hosts is the sequence of its blank-separated fields. *)

\* the setup has not been entered
KhIdle ==
    [pc |-> "none", sshKnownHosts |-> <<>>, before |-> <<>>, knownHosts |-> <<>>,
     log |-> <<>>, commands |-> <<>>, thrown |-> NoError]

\* the well-known relay of line 561
RelayHost == "uptermd.upterm.dev"

\* the line ssh-keyscan prints for a host key: host, key type, key
HostLine(host, type) == <<host, type, "key:" \o host \o ":" \o type>>

\* line 568: awk '{ print "@cert-authority * " $2 " " $3 }' over every line of
\* known_hosts
CertLines(lines) ==
    [i \in DOMAIN lines |-> <<"@cert-authority", "*", lines[i][2], lines[i][3]>>]

\* what ssh-keyscan of the relay writes to its stdout: one line per host key type
\* the relay answers with
ScanResults ==
    {<<>>,
     <<HostLine(RelayHost, "ssh-ed25519")>>,
     <<HostLine(RelayHost, "ssh-rsa"), HostLine(RelayHost, "ssh-ed25519")>>,
     <<HostLine(RelayHost, "ssh-rsa"), HostLine(RelayHost, "ecdsa-sha2-nistp256"),
       HostLine(RelayHost, "ssh-ed25519")>>}

khRest == <<inputVars, ctlVars, outVars, envVars, exec>>

\* mutant: the key-scan follows the caller's text as well
KhStart_ScanToo ==
    /\ kh.pc = "start"
    /\ IF kh.sshKnownHosts # <<>>
       THEN kh' = [kh EXCEPT
                !.log = Append(@, Info(<<"Appending ssh-known-hosts to ~/.ssh/known_hosts. Contents of ~/.ssh/known_hosts:">>)),
                !.knownHosts = @ \o kh.sshKnownHosts,
                !.pc = "scan"]
       ELSE kh' = [kh EXCEPT
                !.log = Append(@, Info(<<"Auto-generating ~/.ssh/known_hosts by attempting connection to uptermd.upterm.dev">>)),
                !.pc = "scan"]
    /\ UNCHANGED khRest

\* lines 553-556 and 559: the branch on the ssh-known-hosts input, the log line of
\* the branch, and fs.appendFileSync of the caller's text
KhStart ==
    /\ kh.pc = "start"
    /\ IF kh.sshKnownHosts # <<>>
       THEN kh' = [kh EXCEPT
                !.log = Append(@, Info(<<"Appending ssh-known-hosts to ~/.ssh/known_hosts. Contents of ~/.ssh/known_hosts:">>)),
                !.knownHosts = @ \o kh.sshKnownHosts,
                !.pc = "echo"]
       ELSE kh' = [kh EXCEPT
                !.log = Append(@, Info(<<"Auto-generating ~/.ssh/known_hosts by attempting connection to uptermd.upterm.dev">>)),
                !.pc = "scan"]
    /\ UNCHANGED khRest

\* line 557: core.info(await execShellCommand('cat ~/.ssh/known_hosts'))
KhEcho ==
    /\ kh.pc = "echo"
    /\ \/ kh' = [kh EXCEPT !.commands = Append(@, "cat"),
                            !.log = Append(@, Info(kh.knownHosts)),
                            !.pc = "done"]
       \/ kh' = [kh EXCEPT !.commands = Append(@, "cat"),
                            !.thrown = CommandFailed("cat ~/.ssh/known_hosts", ""),
                            !.pc = "failed"]
    /\ UNCHANGED khRest

\* lines 560-565: ssh-keyscan of the relay, its stdout appended to known_hosts
KhScan ==
    /\ kh.pc = "scan"
    /\ \/ \E lines \in ScanResults :
             kh' = [kh EXCEPT !.commands = Append(@, "ssh-keyscan"),
                              !.knownHosts = @ \o lines,
                              !.pc = "cert"]
       \/ LET error == CommandFailed("ssh-keyscan", "")
          IN  kh' = [kh EXCEPT !.commands = Append(@, "ssh-keyscan"),
                               !.log = Append(@, Error(<<"Error running ssh-keyscan: ">>
                                                       \o ErrorToString(error))),
                               !.thrown = error,
                               !.pc = "failed"]
    /\ UNCHANGED khRest

\* lines 566-572: the @cert-authority lines made from known_hosts and appended to it
KhCert ==
    /\ kh.pc = "cert"
    /\ \/ kh' = [kh EXCEPT !.commands = Append(@, "cert-authority"),
                            !.knownHosts = @ \o CertLines(kh.knownHosts),
                            !.pc = "done"]
       \/ LET error == CommandFailed("cat", "")
          IN  kh' = [kh EXCEPT !.commands = Append(@, "cert-authority"),
                               !.log = Append(@, Error(<<"Error generating cert-authority entry: ">>
                                                       \o ErrorToString(error))),
                               !.thrown = error,
                               !.pc = "failed"]
    /\ UNCHANGED khRest

----------------------------------------------------------------------------
(* The processes outside the controller *)

\* the external processes are followed until run() has settled
EnvActive == pc # "done"

\* the directory and the socket upterm creates: 'upterm' and the socket inside the
\* XDG_RUNTIME_DIR its launch command carries
DaemonSocketDir == Location(ShellWord(Launches[1].XDG_RUNTIME_DIR)) \o "/upterm"
DaemonSocketFile == DaemonSocketDir \o "/" \o SocketName

\* the file the timeout script writes: the word after '>' of its echo command
ScriptFlagFile == Location(ShellWord(TimeoutScripts[1].flag))

ContinueLocations ==
    {CONTINUE_FILE_PATHS.unix, CONTINUE_FILE_PATHS.win32, WorkspaceContinuePath(ghWorkspace)}

\* README, "Continue a Workflow": somebody inside the session touches a continue file
TouchContinue ==
    /\ EnvActive
    /\ tmuxServer # "none"
    /\ \E p \in ContinueLocations : p \notin files /\ files' = files \cup {p}
    /\ UNCHANGED <<inputVars, exec, kh, ctlVars, outVars, daemon, tmuxServer, watchdog, attached>>

\* upterm host (launched at line 264) has started: its admin socket appears
DaemonReady ==
    /\ EnvActive
    /\ daemon = "starting"
    /\ daemon' = "running"
    /\ files' = files \cup {DaemonSocketDir, DaemonSocketFile}
    /\ UNCHANGED <<inputVars, exec, kh, ctlVars, outVars, tmuxServer, watchdog, attached>>

\* upterm quits on its own and removes its socket
DaemonQuit ==
    /\ EnvActive
    /\ daemon = "running"
    /\ daemon' = "dead"
    /\ attached' = FALSE
    /\ files' = files \ {DaemonSocketFile}
    /\ UNCHANGED <<inputVars, exec, kh, ctlVars, outVars, tmuxServer, watchdog>>

\* upterm crashes: a socket file it created stays behind
DaemonCrash ==
    /\ EnvActive
    /\ daemon \in {"starting", "running"}
    /\ daemon' = "dead"
    /\ attached' = FALSE
    /\ UNCHANGED <<inputVars, exec, kh, ctlVars, outVars, files, tmuxServer, watchdog>>

\* a client connects: the forced command 'tmux attach -t upterm' runs (line 264)
ClientAttach ==
    /\ EnvActive
    /\ daemon = "running"
    /\ ~attached
    /\ attached' = TRUE
    /\ UNCHANGED <<inputVars, exec, kh, ctlVars, outVars, files, daemon, tmuxServer, watchdog>>

\* mutant: the script does not look for an attached client
WatchdogExpire_NoPgrep ==
    /\ EnvActive
    /\ watchdog = "sleeping"
    /\ watchdog' = "flagged"
    /\ files' = files \cup {ScriptFlagFile}
    /\ UNCHANGED <<inputVars, exec, kh, ctlVars, outVars, daemon, tmuxServer, attached>>

\* the timeout script, lines 285-287: the sleep ends, pgrep, the flag file is written
WatchdogExpire ==
    /\ EnvActive
    /\ watchdog = "sleeping"
    /\ IF ~attached
       THEN watchdog' = "flagged" /\ files' = files \cup {ScriptFlagFile}
       ELSE watchdog' = "skipped" /\ UNCHANGED files
    /\ UNCHANGED <<inputVars, exec, kh, ctlVars, outVars, daemon, tmuxServer, attached>>

\* mutant: the script runs tmux kill-server without having written the flag
WatchdogKill_BeforeFlag ==
    /\ EnvActive
    /\ watchdog \in {"sleeping", "flagged"}
    /\ ~attached
    /\ watchdog' = "fired"
    /\ tmuxServer' = "killed"
    /\ attached' = FALSE
    /\ IF daemon \in {"starting", "running"}
       THEN /\ daemon' = "dead"
            /\ \/ files' = files \ {DaemonSocketFile}
               \/ UNCHANGED files
       ELSE UNCHANGED <<daemon, files>>
    /\ UNCHANGED <<inputVars, exec, kh, ctlVars, outVars>>

\* the timeout script, line 288: tmux kill-server takes the daemon down with it
WatchdogKill ==
    /\ EnvActive
    /\ watchdog = "flagged"
    /\ watchdog' = "fired"
    /\ tmuxServer' = "killed"
    /\ attached' = FALSE
    /\ IF daemon \in {"starting", "running"}
       THEN /\ daemon' = "dead"
            /\ \/ files' = files \ {DaemonSocketFile}
               \/ UNCHANGED files
       ELSE UNCHANGED <<daemon, files>>
    /\ UNCHANGED <<inputVars, exec, kh, ctlVars, outVars>>

----------------------------------------------------------------------------
(* Specification of a run *)

\* wait-timeout-minutes values of the runs followed: none, five minutes, not a number
RunTimeouts == {<<>>, <<"5">>, <<"x">>}
RunServers == {"", "ssh://myserver:22"}
Platforms == {"linux", "darwin", "win32", "freebsd"}
Archs == {"x64", "ppc64le"}
Workspaces == {"", "/ws"}
\* files a previous run on the same machine may have left
LeftOver == {Location(getUptermTimeoutFlagPath), IdRsaPath}
\* os.tmpdir() of the runs followed
RunTmpdirs == {<<"/", "tmp">>}
\* no diagnostic probe fails in the runs followed, and upterm leaves no log
RunProbes == {{}}
\* access restrictions of the runs followed: users a and b, a listed twice, and the
\* actor a
RunUsers == {<<"a", ",", "b", " ", "a">>}
RunActorFlags == {"true"}
RunActors == {<<"a">>}

InitRest ==
    /\ pc = "validate"
    /\ tries = 0
    /\ thrown = NoError
    /\ pending = NoError
    /\ daemon = "none"
    /\ tmuxServer = "none"
    /\ watchdog = "none"
    /\ attached = FALSE
    /\ log = <<>>
    /\ setFailed = <<>>
    /\ effects = <<>>
    /\ statusQueries = 0
    /\ socketPath = NoSocket
    /\ tick = 0
    /\ tickObs = <<>>
    /\ tickLog = 0
    /\ tickQueries = 0
    /\ outcome = "none"
    /\ wdAtExit = "none"
    /\ failedStep = 0
    /\ completed = 0
    /\ runPromise = "pending"

\* no shell command of the helper is followed on its own in a run
InitIdle == InitRest /\ exec = ExecIdle /\ kh = KhIdle

Init ==
    /\ waitTimeout \in RunTimeouts
    /\ uptermServer \in RunServers
    /\ platform \in Platforms
    /\ arch \in Archs
    /\ ghWorkspace \in Workspaces
    /\ limitUsers \in RunUsers
    /\ limitActor \in RunActorFlags
    /\ actor \in RunActors
    /\ tmpdir \in RunTmpdirs
    /\ probes \in RunProbes
    /\ files \in SUBSET LeftOver
    /\ InitIdle

Next ==
    \/ RunValidate
    \/ InstallStart
    \/ InstDownload
    \/ InstExtract
    \/ InstCommand
    \/ SshStart
    \/ SshKeygen
    \/ SshConfig
    \/ SessLaunch
    \/ SessWinsize
    \/ SessReadLog
    \/ InitDelay
    \/ ArmWatchdog
    \/ ReadyCheck
    \/ CollectDiagnostics
    \/ MonCheckContinue
    \/ MonCheckTimeout
    \/ MonCheckSocket
    \/ MonFindSocket
    \/ MonStatusResult
    \/ MonCatch
    \/ MonSleep
    \/ RunCatch
    \/ TouchContinue
    \/ DaemonReady
    \/ DaemonQuit
    \/ DaemonCrash
    \/ ClientAttach
    \/ WatchdogExpire
    \/ WatchdogKill

Spec == Init /\ [][Next]_vars

----------------------------------------------------------------------------
(* Specification of the session step alone: a linux/x64 run followed up to the end
   of readiness polling, on runners where any set of diagnostic probes may fail *)

\* the probes of collectDiagnostics and of findUptermSocket that can fail, and the
\* fact that upterm left a log in the socket directory
Probes == {"listing", "has-upterm-log", "upterm.log", "tmux-sessions", "tmux-error-log",
           "command-log", "upterm-version"}
\* wait-timeout-minutes values: none, the accepted value 0, five minutes
ReadyTimeouts == {<<>>, <<"0">>, <<"5">>}

InitReady ==
    /\ waitTimeout \in ReadyTimeouts
    /\ uptermServer = "ssh://myserver:22"
    /\ platform = "linux"
    /\ arch = "x64"
    /\ ghWorkspace = "/ws"
    /\ limitUsers \in RunUsers
    /\ limitActor \in RunActorFlags
    /\ actor \in RunActors
    /\ tmpdir \in RunTmpdirs
    /\ probes \in SUBSET Probes
    /\ files = {}
    /\ InitIdle

NextReady ==
    \/ RunValidate
    \/ InstallStart
    \/ InstDownload
    \/ InstExtract
    \/ InstCommand
    \/ SshStart
    \/ SshKeygen
    \/ SshConfig
    \/ SessLaunch
    \/ SessWinsize
    \/ SessReadLog
    \/ InitDelay
    \/ ArmWatchdog
    \/ ReadyCheck
    \/ CollectDiagnostics
    \/ RunCatch
    \/ DaemonReady
    \/ DaemonQuit
    \/ DaemonCrash
    \/ WatchdogExpire
    \/ WatchdogKill

SpecReady == InitReady /\ [][NextReady]_vars

----------------------------------------------------------------------------
(* Specification of whole runs on the three supported platforms, each with the
   temporary directories its runners have *)

PathPlatforms == {"linux", "darwin", "win32"}
\* os.tmpdir() of a runner of the platform p
TmpdirsOf(p) ==
    IF p = "win32"
    THEN {<<"C:", "\\", "Users", "\\", "runner", "\\", "Temp">>, <<"D:", "\\", "Temp">>}
    ELSE IF p = "darwin"
    THEN {<<"/", "var", "/", "folders", "/", "T">>, <<"/", "tmp">>}
    ELSE {<<"/", "tmp">>, <<"/", "home", "/", "runner", "/", "tmp">>}

InitPaths ==
    /\ waitTimeout = <<"5">>
    /\ uptermServer = "ssh://myserver:22"
    /\ platform \in PathPlatforms
    /\ arch = "x64"
    /\ ghWorkspace = "/ws"
    /\ limitUsers \in RunUsers
    /\ limitActor \in RunActorFlags
    /\ actor \in RunActors
    /\ tmpdir \in TmpdirsOf(platform)
    /\ probes \in RunProbes
    /\ files = {}
    /\ InitIdle

SpecPaths == InitPaths /\ [][Next]_vars

----------------------------------------------------------------------------
(* Specification of the SSH setup: linux/x64 runs up to the end of setupSSH, which
   a later run on the same runner goes through again *)

\* the runs of setupSSH followed on one runner
MaxSetups == 2

\* the setupSSH calls that have come to their end
SetupsDone == Len(SelectSeq(effects, LAMBDA x : x = Effect(StepSSH, "append")))

\* a later run of the action on the same runner reaches setupSSH (run(), line 113)
SetupAgain ==
    /\ pc = "sess_launch"
    /\ SetupsDone < MaxSetups
    /\ pc' = "ssh"
    /\ UNCHANGED <<inputVars, exec, kh, envVars, outVars, ctlRest, thrown, failedStep, completed>>

InitSSH ==
    /\ waitTimeout = <<>>
    /\ uptermServer = "ssh://myserver:22"
    /\ platform \in {"linux", "darwin"}
    /\ arch = "x64"
    /\ ghWorkspace = "/ws"
    /\ limitUsers \in RunUsers
    /\ limitActor \in RunActorFlags
    /\ actor \in RunActors
    /\ tmpdir \in RunTmpdirs
    /\ probes \in RunProbes
    /\ files \in SUBSET {IdRsaPath, IdEd25519Path}
    /\ InitIdle

NextSSH ==
    \/ RunValidate
    \/ InstallStart
    \/ InstDownload
    \/ InstExtract
    \/ InstCommand
    \/ SshStart
    \/ SshKeygen
    \/ SshConfig
    \/ SetupAgain
    \/ RunCatch

SpecSSH == InitSSH /\ [][NextSSH]_vars

----------------------------------------------------------------------------
(* Specification of the known_hosts setup: for each ssh-known-hosts text and each
   known_hosts file found on the runner *)

\* core.getInput('ssh-known-hosts'): none, one line, two lines
KnownHostsInputs ==
    {<<>>,
     <<HostLine("myserver", "ssh-ed25519")>>,
     <<HostLine("myserver", "ssh-rsa"), HostLine("myserver", "ssh-ed25519")>>}

\* ~/.ssh/known_hosts before the setup: absent or empty, entries of other hosts,
\* the lines an earlier run left
KnownHostsBefore ==
    {<<>>,
     <<HostLine("github.com", "ssh-rsa")>>,
     <<HostLine("github.com", "ssh-rsa"), HostLine("gitlab.com", "ssh-ed25519")>>,
     <<HostLine(RelayHost, "ssh-ed25519")>>,
     <<HostLine(RelayHost, "ssh-ed25519")>> \o CertLines(<<HostLine(RelayHost, "ssh-ed25519")>>)}

InitKnownHosts ==
    /\ waitTimeout = <<>>
    /\ uptermServer = "ssh://myserver:22"
    /\ platform = "linux"
    /\ arch = "x64"
    /\ ghWorkspace = "/ws"
    /\ limitUsers \in RunUsers
    /\ limitActor \in RunActorFlags
    /\ actor \in RunActors
    /\ tmpdir \in RunTmpdirs
    /\ probes \in RunProbes
    /\ files = {}
    /\ InitRest
    /\ exec = ExecIdle
    /\ \E text \in KnownHostsInputs, lines \in KnownHostsBefore :
          kh = [KhIdle EXCEPT !.pc = "start", !.sshKnownHosts = text,
                              !.before = lines, !.knownHosts = lines]

NextKnownHosts ==
    \/ KhStart
    \/ KhEcho
    \/ KhScan
    \/ KhCert

SpecKnownHosts == InitKnownHosts /\ [][NextKnownHosts]_vars

----------------------------------------------------------------------------
(* Specification of the validator alone: every text of at most MaxLen characters *)

Chars == {"0", "1", "4", "5", "-", "a", ".", " "}
Texts == UNION {[1..n -> Chars] : n \in 0..MaxLen}

InitValidate ==
    /\ waitTimeout \in Texts
    /\ uptermServer \in RunServers
    /\ platform = "linux"
    /\ arch = "x64"
    /\ ghWorkspace = "/ws"
    /\ limitUsers \in RunUsers
    /\ limitActor \in RunActorFlags
    /\ actor \in RunActors
    /\ tmpdir \in RunTmpdirs
    /\ probes \in RunProbes
    /\ files = {}
    /\ InitIdle

NextValidate ==
    \/ RunValidate
    \/ RunCatch

SpecValidate == InitValidate /\ [][NextValidate]_vars

----------------------------------------------------------------------------
(* Specification of the access restrictions: every limit-access-to-users text of at
   most MaxUsersLen characters, followed up to the launch of the session *)

UserChars == {"a", "b", ",", " ", "\n"}
UserTexts == UNION {[1..n -> UserChars] : n \in 0..MaxUsersLen}
ActorFlags == {"true", "false", "True", ""}
Actors == {<<"a">>, <<"c">>}

InitUsers ==
    /\ waitTimeout = <<>>
    /\ uptermServer = "ssh://myserver:22"
    /\ platform = "linux"
    /\ arch = "x64"
    /\ ghWorkspace = "/ws"
    /\ limitUsers \in UserTexts
    /\ limitActor \in ActorFlags
    /\ actor \in Actors
    /\ tmpdir \in RunTmpdirs
    /\ probes \in RunProbes
    /\ files = {}
    /\ InitIdle

NextUsers ==
    \/ RunValidate
    \/ InstallStart
    \/ InstDownload
    \/ InstExtract
    \/ InstCommand
    \/ SshStart
    \/ SshKeygen
    \/ SshConfig
    \/ SessLaunch
    \/ RunCatch

SpecUsers == InitUsers /\ [][NextUsers]_vars

----------------------------------------------------------------------------
(* Specification of the installer: every platform and architecture, on runners
   with and without upterm and tmux already on the path *)

InstallArchs == {"x64", "arm64", "ppc64le", "unknown", "amd64"}
Preinstalled == {UptermOnPath, TmuxOnPath}

InitInstall ==
    /\ waitTimeout = <<>>
    /\ uptermServer \in RunServers
    /\ platform \in Platforms
    /\ arch \in InstallArchs
    /\ ghWorkspace = "/ws"
    /\ limitUsers \in RunUsers
    /\ limitActor \in RunActorFlags
    /\ actor \in RunActors
    /\ tmpdir \in RunTmpdirs
    /\ probes \in RunProbes
    /\ files \in SUBSET Preinstalled
    /\ InitIdle

NextInstall ==
    \/ RunValidate
    \/ InstallStart
    \/ InstDownload
    \/ InstExtract
    \/ InstCommand
    \/ RunCatch

SpecInstall == InitInstall /\ [][NextInstall]_vars

----------------------------------------------------------------------------
(* Specification of execShellCommand: one call, for each command text and timeout
   option, with every order of the events of its child *)

ExecCmds == {<<>>, <<" ">>, <<"l", "s">>}
ExecTimeouts == {0, 100}

InitExec ==
    /\ waitTimeout = <<>>
    /\ uptermServer = "ssh://myserver:22"
    /\ platform = "linux"
    /\ arch = "x64"
    /\ ghWorkspace = "/ws"
    /\ limitUsers \in RunUsers
    /\ limitActor \in RunActorFlags
    /\ actor \in RunActors
    /\ tmpdir \in RunTmpdirs
    /\ probes \in RunProbes
    /\ files = {}
    /\ InitRest
    /\ \E c \in ExecCmds, t \in ExecTimeouts :
          exec = [ExecIdle EXCEPT !.cmd = c, !.timeout = t]
    /\ kh = KhIdle

NextExec ==
    \/ ExecCall
    \/ ChildWrite
    \/ DataEvent
    \/ ChildExit
    \/ ExitEvent
    \/ ErrorEvent
    \/ TimerFires
    \/ KillTimerFires

SpecExec == InitExec /\ [][NextExec]_vars

----------------------------------------------------------------------------
(* Vocabulary of the claims *)

Range(f) == {f[i] : i \in DOMAIN f}
Last(q) == q[Len(q)]

\* the lines logged since the current tick started
TickLines == SubSeq(log, tickLog + 1, Len(log))

\* a continue file exists at an accepted location: the root-level path of the
\* platform, or $GITHUB_WORKSPACE/continue
AcceptedContinueFile ==
    \/ platform # "win32" /\ "/continue" \in files
    \/ platform = "win32" /\ "C:/msys64/continue" \in files
    \/ ghWorkspace # "" /\ (ghWorkspace \o "/continue") \in files

FlagFilePresent == "/tmp/upterm-data/timeout-flag" \in files

\* a step of the controller (the external processes never move pc)
ControllerStep == pc' # pc

----------------------------------------------------------------------------
(* Claims *)

\* C1: in every tick, a continue file at an accepted location makes the monitor log
\* the continue-exit message and stop in that tick, whatever the flag file, the
\* socket and the daemon are; nothing else is logged and no status query is issued.
C1_ContinueWins ==
    [][(pc = "mon_continue" /\ ControllerStep /\ AcceptedContinueFile)
          => /\ pc' = "done"
             /\ outcome' = "ExitRequested"
             /\ runPromise' = "resolved"
             /\ log' = Append(log, Info(ContinueMsg))
             /\ statusQueries' = statusQueries
             /\ setFailed' = <<>>]_vars

\* C1 witness: the monitor stopped on the continue file of the workspace while the
\* timeout flag was present and the socket was gone.
C1_Witness ==
    /\ outcome = "ExitRequested"
    /\ tickObs = <<"continue">>
    /\ TickLines = <<Info(ContinueMsg)>>
    /\ "/ws/continue" \in files
    /\ "/continue" \notin files
    /\ FlagFilePresent
    /\ SocketFile \notin files
    /\ daemon = "dead"

\* C2: in every tick that saw no continue file, a present timeout flag makes the
\* monitor log the two timeout messages and stop, without a socket check and
\* without a status query, whatever the socket and the daemon are.
C2_TimeoutBeforeSocket ==
    [][(pc = "mon_timeout" /\ ControllerStep /\ tickObs = <<"no-continue">> /\ FlagFilePresent)
          => /\ pc' = "done"
             /\ outcome' = "TimedOut"
             /\ log' = log \o <<Info(TimedOutMsg1), Info(TimedOutMsg2)>>
             /\ tickObs' = <<"no-continue", "flag">>
             /\ statusQueries' = statusQueries
             /\ setFailed' = <<>>]_vars

\* C2 witness: the monitor stopped on the flag in a later tick while the socket was
\* still there and the daemon alive.
C2_Witness ==
    /\ outcome = "TimedOut"
    /\ tickObs = <<"no-continue", "flag">>
    /\ tick = 2
    /\ TickLines = <<Info(TimedOutMsg1), Info(TimedOutMsg2)>>
    /\ SocketFile \in files
    /\ daemon = "running"

C4_ExpectedEndsAreClean ==
    (/\ pc = "done"
     /\ \/ outcome \in {"ExitRequested", "TimedOut", "DaemonExited"}
        \/ "socket-gone" \in Range(tickObs))
        => setFailed = <<>>

\* the stderr of the failed status command carries a lost-connection signature
LostSignature(msg) ==
    \E i \in 1..Len(msg) : msg[i] \in {"connection refused", "No such file or directory"}

\* a status query was issued in this tick and has failed; the catch block is next
StatusQueryFailed == pc = "mon_catch" /\ Last(tickObs) = "status-failed"

\* C5: a failed status query with the flag absent at the re-check and a
\* connection-refused or socket-missing text makes the monitor log the two error
\* lines and the hint, and stop; no status query is issued afterwards.
C5_ConnectionLostStops ==
    /\ [][(StatusQueryFailed /\ ControllerStep /\ ~FlagFilePresent /\ LostSignature(pending))
             => /\ pc' = "done"
                /\ outcome' = "ConnectionLost"
                /\ log' = log \o <<Error(UnexpectedMsg),
                                   Error(<<"Connection error: ", "Error: ">> \o pending),
                                   Info(CrashHintMsg)>>
                /\ setFailed' = <<>>]_vars
    /\ [][outcome = "ConnectionLost"
             => pc' = "done" /\ statusQueries' = statusQueries /\ log' = log]_vars

\* C5 witness: the monitor stopped as ConnectionLost after its second status query
\* failed with 'No such file or directory'.
C5_Witness ==
    /\ outcome = "ConnectionLost"
    /\ pc = "done"
    /\ statusQueries = 2
    /\ Len(TickLines) = 3
    /\ TickLines[2] = Error(<<"Connection error: ", "Error: ">>
                              \o CommandFailed("upterm session current",
                                               "No such file or directory"))
    /\ ~FlagFilePresent

\* C6: a failed status query with the flag absent and a text matching neither
\* signature ends the monitoring: the wrapped error leaves monitorSession, the run
\* is reported failed with it, and the query is not retried.
C6_UnrecognizedAborts ==
    /\ [][(StatusQueryFailed /\ ControllerStep /\ ~FlagFilePresent /\ ~LostSignature(pending))
             => /\ pc' = "catch"
                /\ thrown' = <<"Failed to get upterm session status: ", "Error: ">> \o pending
                /\ outcome' = "Failed"
                /\ statusQueries' = tickQueries + 1
                /\ log' = log]_vars
    /\ [][(outcome = "Failed" /\ ControllerStep)
             => /\ pc = "catch"
                /\ pc' = "done"
                /\ setFailed' = <<thrown>>
                /\ statusQueries' = statusQueries]_vars
    /\ [][outcome = "Failed" => statusQueries' = statusQueries]_vars

\* C6 witness: the run was reported failed with the wrapped 'context deadline
\* exceeded' error of its only status query.
C6_Witness ==
    /\ pc = "done"
    /\ outcome = "Failed"
    /\ statusQueries = 1
    /\ setFailed = << <<"Failed to get upterm session status: ", "Error: ">>
                        \o CommandFailed("upterm session current", "context deadline exceeded") >>

\* C7: the promise of run() is never rejected and is resolved when run() is over;
\* core.setFailed is called once, with the message of the error, when a step threw,
\* and not at all when none did.
C7_SingleCatchBoundary ==
    /\ runPromise # "rejected"
    /\ Len(setFailed) <= 1
    /\ pc = "done"
         => /\ runPromise = "resolved"
            /\ setFailed = IF failedStep # 0 THEN <<thrown>> ELSE <<>>
    /\ pc # "done" => setFailed = <<>> /\ runPromise = "pending"

\* C7 witness: a run whose session step threw has ended with one setFailed call.
C7_Witness ==
    /\ pc = "done"
    /\ failedStep = StepSession
    /\ runPromise = "resolved"
    /\ setFailed = << <<"Failed to setup timeout: ", "Error: ">>
                        \o CommandFailed("timeoutScript", "") >>

\* C8: the side effects of run() come in the order of the steps, a step acts only
\* after the previous one has completed, nothing acts after a failed step, and
\* validation acts on nothing.
C8_StrictStepOrder ==
    /\ \A i \in 1..Len(effects) :
          /\ effects[i].step \in (StepValidate + 1)..(completed + 1)
          /\ \A j \in 1..(i - 1) : effects[j].step <= effects[i].step
    /\ failedStep # 0
         => /\ completed = failedStep - 1
            /\ \A i \in 1..Len(effects) : effects[i].step <= failedStep
    /\ failedStep = StepValidate => effects = <<>>
    /\ completed \in 0..StepMonitor
    /\ (pc = "validate") = (completed = 0 /\ failedStep = 0)

\* C8 witness: a run stopped by a failed download has performed the download and
\* nothing else.
C8_Witness ==
    /\ pc = "done"
    /\ failedStep = StepInstall
    /\ effects = <<Effect(StepInstall, "download")>>
    /\ log = <<>>

RECURSIVE StripTrailingWhite(_)
StripTrailingWhite(s) ==
    IF s # <<>> /\ s[Len(s)] = " " THEN StripTrailingWhite(SubSeq(s, 1, Len(s) - 1)) ELSE s

\* the digits of a text once surrounding white space and one sign are removed
Unsigned(t) ==
    LET u == StripTrailingWhite(SkipWhite(t))
    IN  IF u # <<>> /\ u[1] \in {"-", "+"} THEN Tail(u) ELSE u

\* the text is the decimal notation of an integer (white space around it allowed)
IsIntegerText(t) ==
    /\ Unsigned(t) # <<>>
    /\ \A i \in 1..Len(Unsigned(t)) : Unsigned(t)[i] \in Digits

IntegerValue(t) ==
    IF SkipWhite(t)[1] = "-" THEN 0 - DecValue(Unsigned(t)) ELSE DecValue(Unsigned(t))

\* C9: validateInputs accepts a wait-timeout-minutes text if and only if it is
\* empty or the notation of an integer between 0 and 1440; every other text gets
\* the one wait-timeout error message.
C9_AcceptsIffIntegerInRange ==
    pc # "validate"
        => ((thrown # TimeoutMsg)
               <=> \/ waitTimeout = <<>>
                   \/ /\ IsIntegerText(waitTimeout)
                      /\ IntegerValue(waitTimeout) \in 0..1440)

\* C10 as stated: an empty upterm-server is rejected with 'upterm-server is
\* required' whatever the other inputs are.
C10_FixedMessageAlways ==
    (pc # "validate" /\ uptermServer = "") => thrown = ServerMsg

\* C10 as amended: an empty upterm-server is always rejected, before any side
\* effect; the message is 'upterm-server is required' when the wait-timeout-minutes
\* check passes and the wait-timeout message when that check fails first.
C10_EmptyServerRejected ==
    (pc # "validate" /\ uptermServer = "")
        => /\ pc \in {"catch", "done"}
           /\ failedStep = StepValidate
           /\ thrown = IF TimeoutRejected(waitTimeout) THEN TimeoutMsg ELSE ServerMsg
           /\ pc = "done" => setFailed = <<thrown>>
           /\ effects = <<>>

\* C10 witness: the run with timeout '1440' and no server was reported failed with
\* 'upterm-server is required'.
C10_Witness ==
    /\ pc = "done"
    /\ uptermServer = ""
    /\ waitTimeout = <<"1", "4", "4", "0">>
    /\ setFailed = <<ServerMsg>>

\* the positions of the controller inside the loop of monitorSession
MonitorPcs == {"mon_continue", "mon_timeout", "mon_socket", "mon_find", "mon_await",
               "mon_catch", "mon_sleep"}

\* C11: once a continue file exists at an accepted location while the monitor is
\* running (the file is never removed), the monitor stops with the continue-exit
\* message and run() completes, whatever the daemon and the status command do; in
\* particular, with no timeout flag in play and the daemon alive, the monitor does
\* not leave its loop in any other way while the file is there.
C11_ContinueEndsRun ==
    [][(/\ pc \in MonitorPcs
        /\ AcceptedContinueFile
        /\ ~FlagFilePresent
        /\ daemon = "running"
        /\ ControllerStep
        /\ pc' \notin MonitorPcs)
          => /\ pc' = "done"
             /\ outcome' = "ExitRequested"
             /\ runPromise' = "resolved"
             /\ Last(log') = Info(ContinueMsg)]_vars

\* C12: with wait-timeout-minutes configured and no client attached when the sleep
\* ends, the watchdog writes the flag and shuts the tmux server down, and from then
\* on the run ends by reporting the timeout message pair (a continue file aside).
C12_WatchdogEndsRunAsTimeout ==
    [][(/\ watchdog = "fired"
        /\ ~AcceptedContinueFile
        /\ ControllerStep
        /\ pc # "catch"
        /\ pc' \in {"catch", "done"})
          => /\ pc' = "done"
             /\ outcome' = "TimedOut"
             /\ log' = log \o <<Info(TimedOutMsg1), Info(TimedOutMsg2)>>]_vars

\* C13: when its sleep ends the watchdog writes the flag only if no 'tmux attach'
\* client exists at that moment, and it kills the tmux server only after having
\* written the flag; with a client attached at that moment it writes no flag and
\* kills nothing, then or later.
C13_WatchdogOnlyWhenUnattended ==
    /\ [][(watchdog = "sleeping" /\ watchdog' # "sleeping")
             => IF attached
                THEN watchdog' = "skipped" /\ files' = files /\ tmuxServer' = tmuxServer
                ELSE /\ watchdog' = "flagged"
                     /\ files' = files \cup {"/tmp/upterm-data/timeout-flag"}
                     /\ tmuxServer' = tmuxServer]_vars
    /\ [][(~FlagFilePresent /\ FlagFilePresent') => (watchdog = "sleeping" /\ ~attached)]_vars
    /\ [][(tmuxServer # "killed" /\ tmuxServer' = "killed")
             => (watchdog = "flagged" /\ FlagFilePresent)]_vars
    /\ [][watchdog = "skipped"
             => /\ watchdog' = "skipped"
                /\ tmuxServer' = tmuxServer
                /\ FlagFilePresent' = FlagFilePresent]_vars

\* C13 witness: the sleep ended while a client was attached; the run went on and
\* ended on a continue file, with no flag written and the tmux server alive.
C13_Witness ==
    /\ watchdog = "skipped"
    /\ attached
    /\ ~FlagFilePresent
    /\ tmuxServer = "running"
    /\ outcome = "ExitRequested"

\* the non-empty tokens of a text split on white space, newline or comma: the
\* maximal runs of other characters
TokensOf(text) ==
    LET sep(i) == text[i] \in {" ", "\n", "\t", ","}
    IN  {SubSeq(text, i, j) : <<i, j>> \in
            {ij \in (1..Len(text)) \X (1..Len(text)) :
                /\ ij[1] <= ij[2]
                /\ \A k \in ij[1]..ij[2] : ~sep(k)
                /\ ij[1] = 1 \/ sep(ij[1] - 1)
                /\ ij[2] = Len(text) \/ sep(ij[2] + 1)}}

\* the names the launcher has to authorize
AuthorizedNames ==
    TokensOf(limitUsers) \cup (IF limitActor = "true" THEN {actor} ELSE {})

\* the position of the first closing quote of a parameter text at or after i
\* (0: none)
RECURSIVE ClosingQuote(_, _)
ClosingQuote(text, i) ==
    IF i > Len(text) THEN 0 ELSE IF text[i] = "'" THEN i ELSE ClosingQuote(text, i + 1)

\* a parameter text read back as a command line: the names of its
\* --github-user '<name>' flags in order, and whether it holds nothing else
RECURSIVE ReadFlags(_)
ReadFlags(text) ==
    IF text = <<>> THEN [ok |-> TRUE, names |-> <<>>]
    ELSE IF Head(text) = " " THEN ReadFlags(Tail(text))
    ELSE IF Head(text) = "--github-user '" /\ ClosingQuote(text, 2) # 0
         THEN LET q == ClosingQuote(text, 2)
                  rest == ReadFlags(SubSeq(text, q + 1, Len(text)))
              IN  [ok |-> rest.ok, names |-> <<SubSeq(text, 2, q - 1)>> \o rest.names]
         ELSE [ok |-> FALSE, names |-> <<>>]

\* C14: the authorization parameter of the launch command holds exactly one
\* single-quoted flag --github-user '<name>' for each distinct name among the
\* tokens of limit-access-to-users and, when limit-access-to-actor is exactly
\* 'true', the actor; it holds no other flag and no name twice.
C14_OneFlagPerDistinctName ==
    /\ Len(Launches) <= 1
    /\ Len(Launches) = 1 <=> pc \notin {"validate", "install", "inst_download", "inst_extract",
                                          "inst_tmux", "inst_brew", "ssh", "ssh_keygen",
                                          "ssh_config", "sess_launch"}
                               /\ failedStep \notin {StepValidate, StepInstall, StepSSH}
    /\ \A i \in 1..Len(Launches) :
          LET read == ReadFlags(Launches[i].auth)
          IN  /\ read.ok
              /\ Range(read.names) = AuthorizedNames
              /\ Len(read.names) = Cardinality(AuthorizedNames)

\* C14 witness: users 'b,b' with the actor a included, and users 'a,a' with the
\* actor a included: the launch command holds each name once.
C14_Witness ==
    /\ limitActor = "true"
    /\ actor = <<"a">>
    /\ Len(Launches) = 1
    /\ \/ /\ limitUsers = <<"a", ",", "a">>
          /\ Launches[1].auth = <<"--github-user '", "a", "'", " ">>
       \/ /\ limitUsers = <<"b", ",", "b">>
          /\ Launches[1].auth =
                 <<"--github-user '", "b", "'", " ", "--github-user '", "a", "'", " ">>

\* the architecture is neither x64 nor arm64
UnsupportedArch == arch \notin {"x64", "arm64"}

\* the error installDependencies throws for an unsupported architecture
UnsupportedArchError ==
    <<"Failed to install dependencies on " \o platform \o ": ", "Error: ",
      "Unsupported architecture for upterm: ", arch, ". Only x64 and arm64 are supported.">>

\* run() has gone past validateInputs and past the first statement of the installer
InstallerEntered == pc \notin {"validate", "install"} /\ failedStep # StepValidate

\* C15: on each of the three OS branches an architecture other than x64 or arm64
\* makes installDependencies fail with the unsupported-architecture error
\* before any download or package-manager command is started.
C15_EveryBranchChecksArch ==
    (platform \in {"linux", "darwin", "win32"} /\ UnsupportedArch /\ InstallerEntered)
        => /\ failedStep = StepInstall
           /\ thrown = UnsupportedArchError
           /\ effects = <<>>

\* C16 as stated: every error that leaves installDependencies is wrapped as 'Failed
\* to install dependencies on <platform>: <cause>', for any platform value.
C16_EveryFailureWrapped ==
    failedStep = StepInstall
        => /\ Len(thrown) >= 3
           /\ thrown[1] = "Failed to install dependencies on " \o platform \o ": "
           /\ thrown[2] = "Error: "

\* C16 as amended: every error raised by the handler of the platform (architecture
\* check, download, extraction, missing binary, install command) leaves
\* installDependencies wrapped as 'Failed to install dependencies on <platform>:
\* <cause>'; for a platform without a handler installDependencies throws
\* 'Unsupported platform: <platform>', which is not wrapped.
C16_HandlerFailuresWrapped ==
    failedStep = StepInstall
        => IF platform \in {"linux", "win32", "darwin"}
           THEN /\ Len(thrown) >= 3
                /\ thrown[1] = "Failed to install dependencies on " \o platform \o ": "
                /\ thrown[2] = "Error: "
                /\ pc = "done" => setFailed = <<thrown>>
           ELSE /\ thrown = <<"Unsupported platform: ", platform>>
                /\ effects = <<>>

\* C16 witness: on darwin the failure of brew install was reported wrapped.
C16_Witness ==
    /\ pc = "done"
    /\ platform = "darwin"
    /\ setFailed = << <<"Failed to install dependencies on darwin: ", "Error: ",
                        "Command failed with exit code 1: ", "install">> >>

\* the downloads and package-manager invocations among the effects e
NetworkCalls(e) == SelectSeq(e, LAMBDA x : x.kind \in {"download", "package-manager"})

\* C17 as stated: on an environment where the upterm binary and tmux are already
\* present (for instance after a first run of the installer), the installer
\* performs no download and no package-manager invocation.
C17_SecondRunDoesNothing ==
    [][("PATH/upterm" \in files /\ "PATH/tmux" \in files /\ ControllerStep)
          => NetworkCalls(effects') = NetworkCalls(effects)]_vars

\* C17 as amended: the installer looks for tmux only. On linux and win32 the
\* archive is downloaded on every run, whether or not an upterm binary is present,
\* and the package manager is invoked if and only if tmux is missing; on darwin
\* brew install is invoked on every run.
C17_OnlyTmuxIsLookedFor ==
    /\ [][(pc = "inst_download" /\ ControllerStep)
             => effects' = Append(effects, Effect(StepInstall, "download"))]_vars
    /\ [][(pc = "inst_tmux" /\ ControllerStep)
             => IF "PATH/tmux" \in files
                THEN /\ effects' = Append(effects, Effect(StepInstall, "command"))
                     /\ pc' = "ssh"
                ELSE effects' = effects \o <<Effect(StepInstall, "command"),
                                             Effect(StepInstall, "package-manager")>>]_vars
    /\ [][(pc = "inst_brew" /\ ControllerStep)
             => effects' = effects \o <<Effect(StepInstall, "command"),
                                        Effect(StepInstall, "package-manager")>>]_vars
    /\ [][(pc = "install" /\ ControllerStep)
             => (pc' = "inst_download" <=> (platform \in {"linux", "win32"} /\ ~UnsupportedArch))
                /\ (pc' = "inst_brew" <=> platform = "darwin")]_vars

\* C17 witness: a linux run on a runner that had tmux has installed with one
\* download and no package-manager invocation.
C17_Witness ==
    /\ platform = "linux"
    /\ pc = "ssh"
    /\ effects = <<Effect(StepInstall, "download"), Effect(StepInstall, "extract"),
                   Effect(StepInstall, "addPath"), Effect(StepInstall, "command")>>

\* the effects of one step of run()
StepEffects(step) == SelectSeq(effects, LAMBDA e : e.step = step)

WindowsSkipMsg == <<"Windows is not supported by upterm, skipping...">>

RECURSIVE Captured(_, _)
Captured(stream, n) ==
    IF n = 0 THEN ""
    ELSE Captured(stream, n - 1) \o (IF stream = "stdout" THEN OutChunk(n) ELSE ErrChunk(n))

\* C20: execShellCommand(cmd), called without a timeout, resolves if and only if the
\* exit event reports code 0, and then with the stdout captured up to that event;
\* for every other code, a null code included, it rejects with
\* 'Command failed with exit code <code>: <cmd>', followed by '\nStderr: <stderr>'
\* exactly when the captured stderr is not empty
C20_ResolvesIffExitZero ==
    exec.timeout = 0 =>
        /\ exec.promise = "resolved" <=> (exec.exitSeen /\ exec.code = "0")
        /\ exec.promise = "resolved" =>
               exec.resolvedWith = Captured("stdout", exec.outAtExit)
        /\ (exec.exitSeen /\ exec.code # "0") =>
               /\ exec.promise = "rejected"
               /\ exec.rejectedWith =
                      <<"Command failed with exit code " \o exec.code \o ": ">> \o exec.cmd
                          \o (IF exec.errAtExit = 0 THEN <<>>
                              ELSE <<"\nStderr: ", Captured("stderr", exec.errAtExit)>>)

\* C20: a child ended by a signal, after one chunk of stderr, is reported as a failure
C20_Witness ==
    /\ exec.timeout = 0
    /\ exec.exitSeen
    /\ exec.code = "null"
    /\ exec.promise = "rejected"
    /\ exec.rejectedWith =
           <<"Command failed with exit code null: ", "l", "s", "\nStderr: ", "err1">>

C22_FlagAtRecheckMeansTimeout ==
    /\ [][(StatusQueryFailed /\ ControllerStep /\ FlagFilePresent)
             => /\ pc' = "done"
                /\ outcome' = "TimedOut"
                /\ runPromise' = "resolved"
                /\ log' = log \o <<Info(TimedOutMsg1), Info(TimedOutMsg2)>>
                /\ tickObs' = Append(tickObs, "flag")
                /\ thrown' = <<>>
                /\ setFailed' = <<>>]_vars
    /\ [][outcome = "TimedOut" => setFailed' = <<>> /\ failedStep' = 0]_vars

\* C22 witness: a status query failed with a text that matches no signature while
\* the watchdog wrote the flag; the monitor stopped as TimedOut.
C22_Witness ==
    /\ outcome = "TimedOut"
    /\ pc = "done"
    /\ tickObs = <<"no-continue", "no-flag", "socket", "query", "status-failed", "flag">>
    /\ pending = CommandFailed("upterm session current", "context deadline exceeded")
    /\ TickLines = <<Info(TimedOutMsg1), Info(TimedOutMsg2)>>
    /\ setFailed = <<>>

\* the checks a tick makes, in the order it makes them
TickOrder ==
    {<<>>, <<"no-continue">>, <<"no-continue", "no-flag">>,
     <<"no-continue", "no-flag", "socket">>,
     <<"no-continue", "no-flag", "socket", "query">>}

\* C23: a successful status query makes the monitor log the returned text as it is
\* through core.info and sleep 5000 ms; the next tick then looks at the continue
\* file, the flag and the socket, in that order, before its own query; a tick
\* issues at most one status query.
C23_HeartbeatThenNextTick ==
    /\ [][(pc = "mon_await" /\ ControllerStep /\ pc' = "mon_sleep")
             => /\ Len(log') = Len(log) + 1
                /\ Last(log').level = "info"
                /\ Last(log').msg \in {<<"SSH Session: ssh abc@uptermd.upterm.dev", "\n">>}
                /\ effects' = effects]_vars
    /\ [][(pc = "mon_sleep" /\ ControllerStep)
             => /\ effects' = Append(effects, [step |-> 5, kind |-> "sleep", ms |-> 5000])
                /\ pc' = "mon_continue"
                /\ tick' = tick + 1
                /\ tickObs' = <<>>
                /\ log' = log
                /\ statusQueries' = statusQueries]_vars
    /\ [][(pc \in {"mon_continue", "mon_timeout", "mon_socket", "mon_find"} /\ ControllerStep)
             => /\ tickObs \in TickOrder
                /\ Len(tickObs) = CASE pc = "mon_continue" -> 0 [] pc = "mon_timeout" -> 1
                                     [] pc = "mon_socket" -> 2 [] pc = "mon_find" -> 3]_vars
    /\ [][statusQueries' \in {statusQueries, statusQueries + 1}
             /\ statusQueries' - tickQueries' \in {0, 1}]_vars

\* C23 witness: after the heartbeat of the first tick and the sleep, the second
\* tick has looked at the continue file, the flag and the socket and has issued
\* its own query.
C23_Witness ==
    /\ tick = 2
    /\ pc = "mon_await"
    /\ tickObs = <<"no-continue", "no-flag", "socket", "query">>
    /\ log[tickLog] = Info(<<"SSH Session: ssh abc@uptermd.upterm.dev", "\n">>)
    /\ effects[Len(effects) - 1] = [step |-> 5, kind |-> "sleep", ms |-> 5000]
    /\ statusQueries = 2

C25_FlagObservedIsTerminal ==
    /\ [][ControllerStep => (FlagFilePresent' <=> FlagFilePresent)]_vars
    /\ [][(pc \in {"mon_timeout", "mon_catch"} /\ ControllerStep /\ FlagFilePresent)
             => /\ pc' = "done"
                /\ outcome' = "TimedOut"
                /\ Last(tickObs') = "flag"]_vars
    /\ [][outcome = "TimedOut"
             => /\ pc = "done" /\ pc' = "done"
                /\ outcome' = "TimedOut"
                /\ tickObs' = tickObs
                /\ log' = log
                /\ effects' = effects
                /\ statusQueries' = statusQueries
                /\ setFailed' = setFailed]_vars
    /\ [][(Len(tickObs') > 0 /\ Last(tickObs') = "flag" /\ tickObs' # tickObs)
             => outcome' = "TimedOut"]_vars

\* C25 witness: the first tick saw the flag the watchdog had written; the monitor
\* ended as TimedOut and the flag file is still there.
C25_Witness ==
    /\ pc = "done"
    /\ outcome = "TimedOut"
    /\ tick = 1
    /\ tickObs = <<"no-continue", "flag">>
    /\ wdAtExit \in {"flagged", "fired"}
    /\ FlagFilePresent

\* the unsuccessful socket checks of waitForUptermReady so far: each is followed by
\* its sleep of UPTERM_SOCKET_POLL_INTERVAL
PollSleeps ==
    Len(SelectSeq(effects, LAMBDA x : x = Sleep(StepSession, UPTERM_SOCKET_POLL_INTERVAL)))

\* C26: waitForUptermReady throws the diagnostics error if and only if all 10 checks
\* found no socket: once ten unsuccessful checks are behind and the loop is left,
\* the error raised is the diagnostics text, and the diagnostics text is raised
\* only after ten unsuccessful checks.
C26_DiagnosticsIffAllChecksFail ==
    /\ (PollSleeps = UPTERM_READY_MAX_RETRIES /\ pc # "ready")
           => (thrown # NoError /\ thrown[1] = DiagnosticsHead)
    /\ (thrown # NoError /\ thrown[1] = DiagnosticsHead)
           => PollSleeps = UPTERM_READY_MAX_RETRIES

\* C27: when readiness polling is exhausted the error thrown is always the
\* diagnostics text, from its first line to the pointer to the issue tracker,
\* whichever probes fail.
C27_AlwaysTheBlob ==
    [][(pc = "ready" /\ tries = 0 /\ pc' # pc)
         => /\ thrown' # NoError
            /\ thrown'[1] = DiagnosticsHead
            /\ Last(thrown') = DiagnosticsTail]_vars

\* the causes createUptermSession can catch: the launch or the window-size command
LaunchCauses == {CommandFailed("tmux new", ""), CommandFailed("tmux set", "")}

\* C28: when the launch or the window-size command fails, the error that leaves
\* createUptermSession is 'Failed to create upterm session: <cause>' whether the
\* read of the tmux error log succeeds (one line at error level) or fails (one
\* line at debug level); it is the error the run is failed with.
C28_CauseAlwaysEscapes ==
    /\ [][(pc = "sess_readlog" /\ pc' # pc)
            => /\ pending \in LaunchCauses
               /\ pc' = "catch"
               /\ thrown' = <<"Failed to create upterm session: ", "Error: ">> \o pending
               /\ Len(log') = Len(log) + 1
               /\ \/ Last(log') = Error(<<"Tmux error log: ", "No tmux error log found">>)
                  \/ /\ Last(log').level = "debug"
                     /\ Last(log').msg[1] = "Could not read tmux error log: "]_vars
    /\ []((pc = "done" /\ pending \in LaunchCauses)
            => setFailed = <<(<<"Failed to create upterm session: ", "Error: ">> \o pending)>>)

\* C28 witness: the window-size command failed, the read of the tmux error log
\* failed too and was logged at debug level, and the run was failed with the
\* window-size cause.
C28_Witness ==
    /\ pc = "done"
    /\ pending = CommandFailed("tmux set", "")
    /\ Last(log).level = "debug"
    /\ setFailed = <<(<<"Failed to create upterm session: ", "Error: ">> \o pending)>>

\* readiness polling has started: the loop is entered or has logged an attempt
PollingStarted ==
    \/ pc = "ready"
    \/ \E i \in 1..Len(log) : log[i].msg[1] = "Waiting for upterm to be ready... ("

\* the positions of effects at which x was done
PositionsOf(x) == {i \in 1..Len(effects) : effects[i] = x}

\* C29: the watchdog script is spawned if and only if wait-timeout-minutes is
\* non-empty (the value 0 included); it comes after the launch, the window-size
\* command and the init delay, and before the first readiness check; a failed
\* session creation leaves no watchdog; at most one is spawned per run.
C29_WatchdogScheduling ==
    /\ Len(TimeoutScripts) <= 1
    /\ watchdog # "none" => Len(TimeoutScripts) = 1
    /\ PollingStarted => (Len(TimeoutScripts) = 1 <=> waitTimeout # <<>>)
    /\ \A i \in 1..Len(effects) :
          effects[i].kind = "timeout-script"
             => /\ i > 3
                /\ effects[i - 1] = Sleep(StepSession, UPTERM_INIT_DELAY)
                /\ effects[i - 2] = Effect(StepSession, "command")
                /\ effects[i - 3] = Launches[1]
                /\ completed >= StepSSH
                /\ \A j \in PositionsOf(Sleep(StepSession, UPTERM_SOCKET_POLL_INTERVAL)) : j > i
                /\ ~PollingStarted => pc \in {"catch", "done"}
    /\ pending \in LaunchCauses => (watchdog = "none" /\ TimeoutScripts = <<>>)

\* C29 witness: wait-timeout-minutes is 0, the watchdog script was spawned once and
\* readiness polling has made an unsuccessful check after it.
C29_Witness ==
    /\ waitTimeout = <<"0">>
    /\ Len(TimeoutScripts) = 1
    /\ TimeoutScripts[1].minutes = 0
    /\ watchdog # "none"
    /\ PollSleeps >= 1

C31_EveryChunkCaptured ==
    /\ exec.promise = "resolved"
          => exec.resolvedWith = Captured("stdout", exec.outWritten)
    /\ (exec.promise = "rejected" /\ exec.exitSeen /\ exec.timer # "fired"
           /\ exec.errWritten > 0)
          => exec.rejectedWith = <<"Command failed with exit code " \o exec.code \o ": ">>
                                    \o exec.cmd
                                    \o <<"\nStderr: ", Captured("stderr", exec.errWritten)>>

\* C32: when the timeout elapses on a child that has not exited, SIGTERM is sent
\* first; when the child has still not exited five seconds later, SIGKILL is sent;
\* SIGKILL never comes before SIGTERM and never goes to a child that has exited.
C32_TermThenKill ==
    /\ (exec.killTimer = "fired" /\ exec.child = "running")
          => exec.signals = <<"SIGTERM", "SIGKILL">>
    /\ exec.signals # <<>> => exec.signals[1] = "SIGTERM"
    /\ (exec.killTimer = "armed" /\ exec.child = "running")
          => exec.signals = <<"SIGTERM">>

\* C33: the architecture mapping is total and pure: x64 gives amd64, arm64 gives
\* arm64, every other text gives null from getUptermArchitecture and the
\* unsupported-architecture error from validateArchitecture; on the two branches
\* that call it the installer fails with that error exactly for those texts.
C33_MappingTotalAndPure ==
    /\ getUptermArchitecture(arch)
          = (IF arch = "x64" THEN "amd64" ELSE IF arch = "arm64" THEN "arm64" ELSE "null")
    /\ validateArchitecture(arch)
          = (IF arch \in {"x64", "arm64"} THEN NoError
             ELSE <<"Unsupported architecture for upterm: ", arch,
                    ". Only x64 and arm64 are supported.">>)
    /\ (platform \in {"linux", "win32"} /\ InstallerEntered)
          => (thrown = UnsupportedArchError <=> arch \notin {"x64", "arm64"})

\* C33 witness: a linux run on the architecture 'unknown' has ended on the
\* unsupported-architecture error.
C33_Witness ==
    /\ platform = "linux"
    /\ arch = "unknown"
    /\ pc = "done"
    /\ getUptermArchitecture(arch) = "null"
    /\ setFailed = <<UnsupportedArchError>>

\* C34: generateSSHKeys runs the key generation if and only if there is no
\* '<home>/.ssh/id_rsa'; when there is one, no key file is created or changed; a
\* setupSSH that follows a successful setupSSH generates no key.
C34_SecondSetupGeneratesNoKey ==
    [][(pc = "ssh" /\ pc' # pc)
         => /\ files' = files
            /\ pc' = "ssh_keygen" <=> IdRsaPath \notin files
            /\ completed >= StepSSH => pc' = "ssh_config"]_vars

\* C35: when the generation of the RSA keypair or of the Ed25519 keypair fails,
\* setupSSH fails with 'Failed to generate SSH keys: <cause>' and the run stops
\* before a session is started.
C35_EitherKeygenFailureAborts ==
    [][(pc = "ssh_keygen" /\ pc' # pc
          /\ (IdRsaPath \notin files' \/ IdEd25519Path \notin files'))
         => /\ pc' = "catch"
            /\ failedStep' = StepSSH
            /\ thrown' = <<"Failed to generate SSH keys: ", "Error: ">>
                             \o CommandFailed("ssh-keygen", "")
            /\ Launches = <<>>]_vars

\* the lines the setup has added to known_hosts
KhAdded == SubSeq(kh.knownHosts, Len(kh.before) + 1, Len(kh.knownHosts))

C37_OneCertAuthorityLine ==
    (kh.pc = "done" /\ kh.sshKnownHosts = <<>>)
        => LET certs == SelectSeq(KhAdded, LAMBDA l : l[1] = "@cert-authority")
           IN  /\ Len(certs) = 1
               /\ certs[1][2] = "*"
               /\ \E lines \in ScanResults :
                     \E i \in 1..Len(lines) : certs[1] = CertLines(lines)[i]

C39_LeftOverFlagEndsFirstTick ==
    /\ [][("/tmp/upterm-data/timeout-flag" \in files /\ pc' # pc)
             => "/tmp/upterm-data/timeout-flag" \in files']_vars
    /\ [][(/\ pc = "mon_continue"
           /\ "/tmp/upterm-data/timeout-flag" \in files
           /\ ContinueLocations \cap files = {}
           /\ pc' # pc)
             => /\ pc' = "mon_timeout"
                /\ watchdog = "none" => tick = 1]_vars
    /\ [][(/\ pc = "mon_timeout"
           /\ "/tmp/upterm-data/timeout-flag" \in files
           /\ pc' # pc)
             => /\ pc' = "done"
                /\ outcome' = "TimedOut"
                /\ runPromise' = "resolved"
                /\ log' = log \o <<Info(TimedOutMsg1), Info(TimedOutMsg2)>>
                /\ statusQueries' = statusQueries
                /\ setFailed' = <<>>]_vars

\* C39 witness: a run without wait-timeout-minutes and without a watchdog, started
\* with a flag file left behind, whose session came up with the daemon running;
\* its first tick ended it as TimedOut without a status query.
C39_Witness ==
    /\ waitTimeout = <<>>
    /\ watchdog = "none"
    /\ TimeoutScripts = <<>>
    /\ daemon = "running"
    /\ tmuxServer = "running"
    /\ ContinueLocations \cap files = {}
    /\ pc = "done"
    /\ outcome = "TimedOut"
    /\ tick = 1
    /\ tickObs = <<"no-continue", "flag">>
    /\ statusQueries = 0

\* C40: no step of the controller stops anything it started: a step of run()
\* changes the tmux server only by launching it, the daemon only by launching it
\* and the watchdog only by arming it, and detaches no client; this holds for the
\* steps that end run() too (continue signal, timeout, quit, connection lost,
\* readiness exhaustion, failed session creation, unrecognized status error), so
\* what was running before the end is running after it. The tmux server is killed
\* by the watchdog script only, in a step that is not the controller's.
C40_ControllerKillsNothing ==
    /\ [][pc' # pc
             => /\ \/ tmuxServer' = tmuxServer
                   \/ pc = "sess_launch" /\ tmuxServer = "none" /\ tmuxServer' = "running"
                /\ \/ daemon' = daemon
                   \/ pc = "sess_launch" /\ daemon = "none" /\ daemon' = "starting"
                /\ \/ watchdog' = watchdog
                   \/ pc = "arm_watchdog" /\ watchdog = "none" /\ watchdog' = "sleeping"
                /\ attached' = attached]_vars
    /\ [][(tmuxServer # "killed" /\ tmuxServer' = "killed")
             => /\ pc' = pc
                /\ watchdog = "flagged"
                /\ watchdog' = "fired"]_vars

\* C40 witness: run() has ended on the continue signal; the tmux server and the
\* daemon it launched are running, a client is attached and the armed watchdog is
\* still in its sleep.
C40_Witness ==
    /\ pc = "done"
    /\ outcome = "ExitRequested"
    /\ tmuxServer = "running"
    /\ daemon = "running"
    /\ attached
    /\ watchdog = "sleeping"

============================================================================
